---- MODULE Spec2Model ----
(***************************************************************************)
(* YouTube Search Plus: the text-filter query language of src/src/filters.ts *)
(* (buildQueryString, parseQueryFilters, stripOperators, csvEscape,        *)
(* buildPreviewLines).                                                     *)
(*                                                                         *)
(* A JavaScript string is a sequence of one-character strings, so that the *)
(* regular expressions of the source are computed character by character.  *)
(***************************************************************************)
EXTENDS Integers, Sequences, FiniteSets

VARIABLES
    op,        \* the core function whose call has just returned ("idle": none;
               \* "error": the call threw)
    filters,   \* the ActiveTextFilter[] argument of the call
    query,     \* the string argument of the call
    options,   \* the options argument of buildPreviewLines
    text,      \* the string a call returned
    entries,   \* the ActiveTextFilter[] a call returned
    lines,     \* the PreviewLine[] a call returned
    catalog,   \* the module's array TEXT_FILTERS, the only thing the core holds
    url,       \* the page: "results" when it has a search_query parameter
    phase,     \* the content script: "start" before init, "ready" after
               \* it, "leaving" once it assigned window.location.href
    savedFilters,              \* the content script's savedFilters
    excludeShorts,             \* its excludeShorts
    keepAfterSearch,           \* its keepAfterSearch
    filtersAppliedThisSearch,  \* its filtersAppliedThisSearch
    input,     \* the value of the page's search box
    submitted, \* what the last search trigger made of the search
    panel,     \* the FilterPanel of the content script
    storage,   \* chrome.storage.local
    ysp_applied,  \* the sessionStorage item ysp_applied
    proStatus, \* the paygate's proStatus
    paid,      \* whether ExtPay holds the user as paid
    tasks,     \* the callbacks that are pending: storage reads, timers,
               \* the ExtPay request
    exportBtn, \* the ExportButton of the content script
    flows,     \* the export flows that were started
    onboarding \* the Onboarding of the content script

\* the variables of the query-language core, and those of the page
core == <<op, filters, query, options, text, entries, lines, catalog>>
script == <<savedFilters, excludeShorts, keepAfterSearch, filtersAppliedThisSearch>>
ui == <<url, phase, script, input, submitted, panel, storage, ysp_applied,
        proStatus, paid, tasks, exportBtn, flows, onboarding>>
vars == <<core, ui>>

(***************************************************************************)
(* Bounds of the model.                                                    *)
(***************************************************************************)
\* size of the filter list the UI holds: two for an entry, one for each
\* character of a value
MaxSize == 6
\* characters of a query of letters, spaces and double quotes
MaxQuoted == 6
\* characters of a query of letters, spaces, double quotes, dashes and hashes
MaxLen == 5
\* pieces (characters or operator keywords) of a query with operator keywords
MaxPieces == 3
\* characters of a value given to csvEscape
MaxCell == 4
\* size of the filter list and pieces of the query together, where every
\* function of the core is called
MaxCore == 3

(***************************************************************************)
(* Strings.                                                                *)
(***************************************************************************)
Quote == "\""
Space == " "
Dash == "-"
Hash == "#"

AfterOp == <<"a", "f", "t", "e", "r", ":">>
BeforeOp == <<"b", "e", "f", "o", "r", "e", ":">>
IntitleOp == <<"i", "n", "t", "i", "t", "l", "e", ":">>
ChannelOp == <<"c", "h", "a", "n", "n", "e", "l", ":">>

\* \s of a JavaScript regular expression, and the characters trim() removes
IsSpace(c) == c \in {" ", "\t", "\n", "\r"}

\* TEXT_FILTERS: the catalog, in its order (id, label, operator)
TEXT_FILTERS ==
    << [id |-> "after", label |-> "After", operator |-> AfterOp],
       [id |-> "before", label |-> "Before", operator |-> BeforeOp],
       [id |-> "intitle", label |-> "In Title", operator |-> IntitleOp],
       [id |-> "exact", label |-> "Exact Phrase", operator |-> <<Quote>>],
       [id |-> "exclude", label |-> "Exclude", operator |-> <<Dash>>],
       [id |-> "channel", label |-> "Boost Channel", operator |-> ChannelOp],
       [id |-> "hashtag", label |-> "Hashtag", operator |-> <<Hash>>] >>

\* a slip of FindConfig: the test of find holds for every entry, the first
\* one is found whatever the id
FindConfigAny(id) == {1}

\* TEXT_FILTERS.find((c) => c.id === id): the indices of the entries found
FindConfig(id) == {k \in 1..Len(catalog) : catalog[k].id = id}

Min(S) == CHOOSE x \in S : \A y \in S : x <= y

\* the length of the run of non-whitespace characters of s that starts at i: \S*
RECURSIVE NonSpaceRun(_, _)
NonSpaceRun(s, i) ==
    IF i > Len(s) \/ IsSpace(s[i]) THEN 0 ELSE 1 + NonSpaceRun(s, i + 1)

\* the length of the run of whitespace characters of s that starts at i: \s*
RECURSIVE SpaceRun(_, _)
SpaceRun(s, i) ==
    IF i > Len(s) \/ ~IsSpace(s[i]) THEN 0 ELSE 1 + SpaceRun(s, i + 1)

\* the length of the run of characters other than " that starts at i: [^"]*
RECURSIVE NonQuoteRun(_, _)
NonQuoteRun(s, i) ==
    IF i > Len(s) \/ s[i] = Quote THEN 0 ELSE 1 + NonQuoteRun(s, i + 1)

\* s holds the literal lit at position i
HasAt(s, i, lit) ==
    /\ i + Len(lit) - 1 <= Len(s)
    /\ \A k \in 1..Len(lit) : s[i + k - 1] = lit[k]

\* String.prototype.trim
RECURSIVE trimEnd(_)
trimEnd(s) ==
    IF s # <<>> /\ IsSpace(s[Len(s)]) THEN trimEnd(SubSeq(s, 1, Len(s) - 1)) ELSE s

trim(s) == LET e == trimEnd(s) IN SubSeq(e, SpaceRun(e, 1) + 1, Len(e))

\* Array.prototype.join
RECURSIVE join(_, _)
join(parts, sep) ==
    IF parts = <<>> THEN <<>>
    ELSE IF Len(parts) = 1 THEN parts[1]
    ELSE parts[1] \o sep \o join(Tail(parts), sep)

\* s.split(/\s+/): the pieces of s between its runs of whitespace
RECURSIVE splitFrom(_, _, _)
splitFrom(s, i, piece) ==
    IF i > Len(s) THEN <<piece>>
    ELSE IF IsSpace(s[i])
         THEN <<piece>> \o splitFrom(s, i + SpaceRun(s, i), <<>>)
         ELSE splitFrom(s, i + 1, Append(piece, s[i]))

split(s) == splitFrom(s, 1, <<>>)

(***************************************************************************)
(* The regular expressions of filters.ts.  A regular expression is named   *)
(* by a record; MatchLen is the length of its match that starts at         *)
(* position i of s, 0 when it matches nothing there (none matches the      *)
(* empty string).                                                          *)
(***************************************************************************)
\* /after:(\S+)/, /before:(\S+)/, /intitle:(\S+)/, /channel:(\S+)/, /#(\S+)/
OperatorRe(lit) == [kind |-> "operator", lit |-> lit]
\* /"([^"]+)"/
ExactRe == [kind |-> "exact", lit |-> <<Quote>>]
\* /(?:^|\s)-(\S+)/
ExcludeRe == [kind |-> "exclude", lit |-> <<Dash>>]
\* /\s+/
SpacesRe == [kind |-> "spaces", lit |-> <<>>]

\* lit\S+ at i
OperatorMatchLen(lit, s, i) ==
    IF HasAt(s, i, lit) /\ NonSpaceRun(s, i + Len(lit)) > 0
    THEN Len(lit) + NonSpaceRun(s, i + Len(lit))
    ELSE 0

\* "[^"]+" at i: a quote, one or more other characters, a quote
ExactMatchLen(s, i) ==
    LET n == NonQuoteRun(s, i + 1)
    IN  IF s[i] = Quote /\ n > 0 /\ i + n + 1 <= Len(s) THEN n + 2 ELSE 0

\* a slip of ExcludeMatchLen: (?:^|\s) is left out, a dash anywhere starts a
\* match
ExcludeMatchLenAnywhere(s, i) ==
    IF s[i] = Dash /\ NonSpaceRun(s, i + 1) > 0
    THEN 1 + NonSpaceRun(s, i + 1)
    ELSE 0

\* (?:^|\s)-\S+ at i: the dash at the start of the string, or after one
\* whitespace character that is part of the match
ExcludeMatchLen(s, i) ==
    IF i = 1 /\ s[i] = Dash /\ NonSpaceRun(s, i + 1) > 0
    THEN 1 + NonSpaceRun(s, i + 1)
    ELSE IF IsSpace(s[i]) /\ HasAt(s, i + 1, <<Dash>>) /\ NonSpaceRun(s, i + 2) > 0
         THEN 2 + NonSpaceRun(s, i + 2)
         ELSE 0

MatchLen(re, s, i) ==
    CASE re.kind = "operator" -> OperatorMatchLen(re.lit, s, i)
      [] re.kind = "exact" -> ExactMatchLen(s, i)
      [] re.kind = "exclude" -> ExcludeMatchLen(s, i)
      [] re.kind = "spaces" -> SpaceRun(s, i)

\* a slip of Search: the rightmost match is found, not the leftmost
RECURSIVE SearchLast(_, _, _)
SearchLast(re, s, i) ==
    IF i > Len(s) THEN 0
    ELSE LET later == SearchLast(re, s, i + 1)
         IN  IF later # 0 THEN later
             ELSE IF MatchLen(re, s, i) > 0 THEN i ELSE 0

\* the position of the leftmost match of re in s at or after i, 0 when none
RECURSIVE Search(_, _, _)
Search(re, s, i) ==
    IF i > Len(s) THEN 0
    ELSE IF MatchLen(re, s, i) > 0 THEN i
    ELSE Search(re, s, i + 1)

\* a slip of match1: the whole match, m[0], is read instead of the group m[1]
match0(re, s) ==
    LET i == Search(re, s, 1)
    IN  IF i = 0 THEN <<>> ELSE SubSeq(s, i, i + MatchLen(re, s, i) - 1)

\* s.match(re) of a regular expression without the g flag, read at [1]: the
\* capture group of the leftmost match; <<>> stands for null (a group of
\* these expressions is never empty)
match1(re, s) ==
    LET i == Search(re, s, 1)
    IN  IF i = 0 THEN <<>>
        ELSE SubSeq(s, i + Len(re.lit), i + MatchLen(re, s, i) - 1)

\* s.match(re) with the g flag: every match, left to right, not overlapping;
\* <<>> stands for null
RECURSIVE matchAllFrom(_, _, _)
matchAllFrom(re, s, i) ==
    IF i > Len(s) THEN <<>>
    ELSE LET n == MatchLen(re, s, i)
         IN  IF n > 0
             THEN <<SubSeq(s, i, i + n - 1)>> \o matchAllFrom(re, s, i + n)
             ELSE matchAllFrom(re, s, i + 1)

matchAll(re, s) == matchAllFrom(re, s, 1)

\* s.replace(re, by) with the g flag
RECURSIVE replaceFrom(_, _, _, _)
replaceFrom(re, s, i, by) ==
    IF i > Len(s) THEN <<>>
    ELSE LET n == MatchLen(re, s, i)
         IN  IF n > 0
             THEN by \o replaceFrom(re, s, i + n, by)
             ELSE <<s[i]>> \o replaceFrom(re, s, i + 1, by)

replaceAll(re, s, by) == replaceFrom(re, s, 1, by)

\* m.replace(/"/g, "")
RECURSIVE removeQuotes(_)
removeQuotes(m) ==
    IF m = <<>> THEN <<>>
    ELSE IF Head(m) = Quote THEN removeQuotes(Tail(m))
    ELSE <<Head(m)>> \o removeQuotes(Tail(m))

\* m.replace(/^-/, "")
removeLeadingDash(m) == IF m # <<>> /\ Head(m) = Dash THEN Tail(m) ELSE m

(***************************************************************************)
(* buildQueryString                                                        *)
(***************************************************************************)
RECURSIVE prefixEach(_, _)
prefixEach(lit, words) ==
    IF words = <<>> THEN <<>>
    ELSE <<lit \o Head(words)>> \o prefixEach(lit, Tail(words))

\* a slip of partsOf: the value is tested for "" before it is trimmed, so a
\* whitespace-only value is not skipped
partsOfBlankKept(f) ==
    LET found == FindConfig(f.id)
        val == trim(f.value)
    IN  IF found = {} \/ f.value = <<>> THEN <<>>
        ELSE LET config == catalog[Min(found)]
             IN  CASE config.id = "exact" -> << <<Quote>> \o val \o <<Quote>> >>
                   [] config.id = "exclude" -> prefixEach(<<Dash>>, split(val))
                   [] config.id = "hashtag" -> << <<Hash>> \o val >>
                   [] OTHER -> << config.operator \o val >>

\* a slip of partsOf: the exclude value is not split, one part holds all words
partsOfExcludeUnsplit(f) ==
    LET found == FindConfig(f.id)
        val == trim(f.value)
    IN  IF found = {} \/ val = <<>> THEN <<>>
        ELSE LET config == catalog[Min(found)]
             IN  CASE config.id = "exact" -> << <<Quote>> \o val \o <<Quote>> >>
                   [] config.id = "hashtag" -> << <<Hash>> \o val >>
                   [] OTHER -> << config.operator \o val >>

\* the parts one entry pushes (none when it is skipped)
partsOf(f) ==
    LET found == FindConfig(f.id)
        val == trim(f.value)
    IN  IF found = {} \/ val = <<>> THEN <<>>
        ELSE LET config == catalog[Min(found)]
             IN  CASE config.id = "exact" -> << <<Quote>> \o val \o <<Quote>> >>
                   [] config.id = "exclude" -> prefixEach(<<Dash>>, split(val))
                   [] config.id = "hashtag" -> << <<Hash>> \o val >>
                   [] OTHER -> << config.operator \o val >>

\* a slip of partsOfAll: the parts of an entry are put before those of the
\* entries before it (unshift for push)
RECURSIVE partsOfAllUnshifted(_)
partsOfAllUnshifted(fs) ==
    IF fs = <<>> THEN <<>> ELSE partsOfAllUnshifted(Tail(fs)) \o partsOf(Head(fs))

\* for (const f of filters) { ... parts.push(...) }
RECURSIVE partsOfAll(_)
partsOfAll(fs) ==
    IF fs = <<>> THEN <<>> ELSE partsOf(Head(fs)) \o partsOfAll(Tail(fs))

buildQueryString(fs) == join(partsOfAll(fs), <<Space>>)

(***************************************************************************)
(* parseQueryFilters                                                       *)
(***************************************************************************)
\* const m = query.match(re); if (m) filters.push({ id, value: m[1] })
firstMatchEntry(id, lit, q) ==
    LET m == match1(OperatorRe(lit), q)
    IN  IF m = <<>> THEN <<>> ELSE << [id |-> id, value |-> m] >>

\* a slip of exactEntries: only the first match gives an entry, as for the
\* other operators
exactEntriesFirstOnly(ms) ==
    IF ms = <<>> THEN <<>>
    ELSE << [id |-> "exact", value |-> removeQuotes(Head(ms))] >>

\* exactMatches.forEach((m) => filters.push({ id: "exact", value: ... }))
RECURSIVE exactEntries(_)
exactEntries(ms) ==
    IF ms = <<>> THEN <<>>
    ELSE << [id |-> "exact", value |-> removeQuotes(Head(ms))] >>
         \o exactEntries(Tail(ms))

RECURSIVE excludeWords(_)
excludeWords(ms) ==
    IF ms = <<>> THEN <<>>
    ELSE <<removeLeadingDash(trim(Head(ms)))>> \o excludeWords(Tail(ms))

excludeEntry(q) ==
    LET excludeMatches == matchAll(ExcludeRe, q)
        words == excludeWords(excludeMatches)
    IN  IF excludeMatches # <<>> /\ Len(words) > 0
        THEN << [id |-> "exclude", value |-> join(words, <<Space>>)] >>
        ELSE <<>>

\* a slip of parseQueryFilters: the channel block is placed before the
\* exclude block
parseQueryFiltersChannelEarly(q) ==
    firstMatchEntry("after", AfterOp, q)
    \o firstMatchEntry("before", BeforeOp, q)
    \o firstMatchEntry("intitle", IntitleOp, q)
    \o exactEntries(matchAll(ExactRe, q))
    \o firstMatchEntry("channel", ChannelOp, q)
    \o excludeEntry(q)
    \o firstMatchEntry("hashtag", <<Hash>>, q)

parseQueryFilters(q) ==
    firstMatchEntry("after", AfterOp, q)
    \o firstMatchEntry("before", BeforeOp, q)
    \o firstMatchEntry("intitle", IntitleOp, q)
    \o exactEntries(matchAll(ExactRe, q))
    \o excludeEntry(q)
    \o firstMatchEntry("channel", ChannelOp, q)
    \o firstMatchEntry("hashtag", <<Hash>>, q)

(***************************************************************************)
(* stripOperators                                                          *)
(***************************************************************************)
\* the removal passes, in the order of the source
StripPasses ==
    << OperatorRe(AfterOp), OperatorRe(BeforeOp), OperatorRe(IntitleOp), ExactRe,
       OperatorRe(ChannelOp), OperatorRe(<<Hash>>), ExcludeRe >>

RECURSIVE removePasses(_, _)
removePasses(res, s) ==
    IF res = <<>> THEN s
    ELSE removePasses(Tail(res), replaceAll(Head(res), s, <<>>))

\* a slip of normalizeSpaces: the trim is left out
normalizeSpacesUntrimmed(s) == replaceAll(SpacesRe, s, <<Space>>)

\* .replace(/\s+/g, " ").trim()
normalizeSpaces(s) == trim(replaceAll(SpacesRe, s, <<Space>>))

stripOperators(q) == normalizeSpaces(removePasses(StripPasses, q))

(***************************************************************************)
(* csvEscape                                                               *)
(***************************************************************************)
\* a slip of needsQuoting: the carriage return is not tested for
needsQuotingNoReturn(value) ==
    \E i \in 1..Len(value) : value[i] \in {",", Quote, "\n"}

\* value.includes(",") || value.includes('"') || value.includes("\n") ||
\* value.includes("\r")
needsQuoting(value) ==
    \E i \in 1..Len(value) : value[i] \in {",", Quote, "\n", "\r"}

\* value.replace(/"/g, '""')
RECURSIVE doubleQuotes(_)
doubleQuotes(value) ==
    IF value = <<>> THEN <<>>
    ELSE IF Head(value) = Quote THEN <<Quote, Quote>> \o doubleQuotes(Tail(value))
    ELSE <<Head(value)>> \o doubleQuotes(Tail(value))

csvEscape(value) ==
    IF needsQuoting(value)
    THEN <<Quote>> \o doubleQuotes(value) \o <<Quote>>
    ELSE value

(***************************************************************************)
(* buildPreviewLines                                                       *)
(***************************************************************************)
\* val.split(/\s+/).forEach((word) => lines.push({ connector: "NOT", ... }))
RECURSIVE excludeLines(_)
excludeLines(words) ==
    IF words = <<>> THEN <<>>
    ELSE << [connector |-> "NOT", label |-> "Exclude", value |-> Head(words)] >>
         \o excludeLines(Tail(words))

\* a slip of connectorAt: the first line is not told from the others
connectorAtAlwaysAnd(length) == "AND"

\* a slip of connectorAt: the test is the wrong way round
connectorAtSwapped(length) == IF length # 0 THEN "" ELSE "AND"

\* connector: lines.length ? "AND" : ""
connectorAt(length) == IF length # 0 THEN "AND" ELSE ""

\* a slip of linesOf: the lines of an exclude entry get their connector by
\* the rule of the other lines
linesOfExcludeConnected(f, length) ==
    LET found == FindConfig(f.id)
        val == trim(f.value)
    IN  IF found = {} \/ val = <<>> THEN <<>>
        ELSE LET config == catalog[Min(found)]
                 connector == IF length # 0 THEN "AND" ELSE ""
                 words == split(val)
                 label == CASE config.id = "after" -> "After"
                            [] config.id = "before" -> "Before"
                            [] config.id = "intitle" -> "In Title"
                            [] config.id = "channel" -> "Boost Channel"
                            [] OTHER -> "Hashtag"
             IN  CASE config.id = "exact" ->
                        << [connector |-> connector, label |-> "Exact",
                            value |-> <<Quote>> \o val \o <<Quote>>] >>
                   [] config.id = "exclude" ->
                        [n \in 1..Len(words) |->
                            [connector |-> IF length + n - 1 # 0 THEN "AND" ELSE "",
                             label |-> "Exclude", value |-> words[n]]]
                   [] config.id = "hashtag" ->
                        << [connector |-> connector, label |-> label,
                            value |-> <<Hash>> \o val] >>
                   [] OTHER ->
                        << [connector |-> connector, label |-> label, value |-> val] >>

\* the lines one entry pushes when lines.length is length (none when it is
\* skipped)
linesOf(f, length) ==
    LET found == FindConfig(f.id)
        val == trim(f.value)
    IN  IF found = {} \/ val = <<>> THEN <<>>
        ELSE LET config == catalog[Min(found)]
                 connector == connectorAt(length)
             IN  CASE config.id = "exact" ->
                        << [connector |-> connector, label |-> "Exact",
                            value |-> <<Quote>> \o val \o <<Quote>>] >>
                   [] config.id = "exclude" -> excludeLines(split(val))
                   [] config.id = "after" ->
                        << [connector |-> connector, label |-> "After", value |-> val] >>
                   [] config.id = "before" ->
                        << [connector |-> connector, label |-> "Before", value |-> val] >>
                   [] config.id = "intitle" ->
                        << [connector |-> connector, label |-> "In Title", value |-> val] >>
                   [] config.id = "channel" ->
                        << [connector |-> connector, label |-> "Boost Channel",
                            value |-> val] >>
                   [] config.id = "hashtag" ->
                        << [connector |-> connector, label |-> "Hashtag",
                            value |-> <<Hash>> \o val] >>
                   [] OTHER -> <<>>

\* for (const f of filters) { ... lines.push(...) }
RECURSIVE linesOfAll(_, _)
linesOfAll(fs, ls) ==
    IF fs = <<>> THEN ls
    ELSE linesOfAll(Tail(fs), ls \o linesOf(Head(fs), Len(ls)))

\* options?.excludeShorts: undefined when no options are given
excludeShortsOf(o) == IF o.given THEN o.excludeShorts ELSE "undefined"

ShortsLine == [connector |-> "NOT", label |-> "Shorts", value |-> <<>>]

\* a slip of buildPreviewLines: the Shorts line is put first (unshift for push)
buildPreviewLinesShortsFirst(fs, o) ==
    LET ls == linesOfAll(fs, <<>>)
    IN  IF excludeShortsOf(o) = "true" THEN <<ShortsLine>> \o ls ELSE ls

buildPreviewLines(fs, o) ==
    LET ls == linesOfAll(fs, <<>>)
    IN  IF excludeShortsOf(o) = "true" THEN Append(ls, ShortsLine) ELSE ls

(***************************************************************************)
(* Errors.  The functions call methods of their string arguments and of    *)
(* arrays they made, which do not throw; what can throw is the read of a   *)
(* property of undefined or null: of config (the result of find), of the   *)
(* result of match, and of options.                                        *)
(***************************************************************************)
\* config.id is read in the switch, which is reached when the entry is not
\* skipped by  if (!config || !f.value.trim()) continue
configRead(f) == ~(FindConfig(f.id) = {} \/ trim(f.value) = <<>>)

\* the read of config.id throws when find returned undefined
entryThrows(f) == configRead(f) /\ FindConfig(f.id) = {}

buildQueryStringThrows(fs) == \E k \in 1..Len(fs) : entryThrows(fs[k])

\* the regular expressions parseQueryFilters matches the query with
ParseRes ==
    { OperatorRe(AfterOp), OperatorRe(BeforeOp), OperatorRe(IntitleOp), ExactRe,
      ExcludeRe, OperatorRe(ChannelOp), OperatorRe(<<Hash>>) }

\* query.match(re) is null: re matches nowhere
IsNull(re, q) == Search(re, q, 1) = 0

\* a slip of matchRead: the result is read without the test  if (m)
matchReadUnguarded(re, q) == TRUE

\* the result of match is read ([1], forEach, map) inside  if (m)
matchRead(re, q) == ~IsNull(re, q)

parseQueryFiltersThrows(q) ==
    \E re \in ParseRes : matchRead(re, q) /\ IsNull(re, q)

\* options?.excludeShorts reads excludeShorts of options that are given only
optionsRead(o) == o.given

buildPreviewLinesThrows(fs, o) ==
    \/ \E k \in 1..Len(fs) : entryThrows(fs[k])
    \/ optionsRead(o) /\ ~o.given

\* the state a call ends in
Outcome(name, throws) == IF throws THEN "error" ELSE name

(***************************************************************************)
(* The arguments the calls are made with.                                  *)
(***************************************************************************)
\* the characters of a filter value
ValueChars == {"a", "b", Space, "\t", Quote}

\* the ids of an entry: those of the catalog and one that is not in it
Ids == {TEXT_FILTERS[k].id : k \in 1..Len(TEXT_FILTERS)} \cup {"nonexistent"}

\* the size of a filter list: two for an entry, one for each character
RECURSIVE SizeOf(_)
SizeOf(fs) ==
    IF fs = <<>> THEN 0 ELSE 2 + Len(Head(fs).value) + SizeOf(Tail(fs))

\* the characters of a query of quoted phrases
QuotedChars == {"a", Space, Quote}

\* the characters of a query without operator keywords
QueryChars == {"a", Space, Quote, Dash, Hash}

\* the characters the user types into the search box
TypedChars == QueryChars \cup {"\t"}

\* the operator keywords, typed as a whole
Keywords == {AfterOp, BeforeOp, IntitleOp, ChannelOp}

\* the characters of a value given to csvEscape
CsvChars == {"a", ",", Quote, "\n", "\r"}

\* the options of buildPreviewLines: none, or an object whose excludeShorts is
\* absent, false or true
Options ==
    {[given |-> FALSE, excludeShorts |-> "undefined"]}
    \cup {[given |-> TRUE, excludeShorts |-> e] : e \in {"undefined", "false", "true"}}

\* the pieces a query was typed in: an operator keyword, or one character
RECURSIVE PieceCount(_, _)
PieceCount(q, i) ==
    IF i > Len(q) THEN 0
    ELSE LET ks == {k \in Keywords : HasAt(q, i, k)}
         IN  IF ks = {} THEN 1 + PieceCount(q, i + 1)
             ELSE 1 + PieceCount(q, i + Len(CHOOSE k \in ks : TRUE))

\* the queries of the model: quoted phrases, queries without operator
\* keywords, and queries of a few pieces
InQueries(q) ==
    \/ Len(q) <= MaxQuoted /\ \A i \in 1..Len(q) : q[i] \in QuotedChars
    \/ Len(q) <= MaxLen /\ \A i \in 1..Len(q) : q[i] \in QueryChars
    \/ PieceCount(q, 1) <= MaxPieces

(***************************************************************************)
(* The page the core is used on: the content script, its filter panel, the *)
(* paygate, the export button and the onboarding tour, as they are when    *)
(* the script is loaded.                                                   *)
(***************************************************************************)
\* EXPORT_FIELDS: the fields of an exported result, those selected at first
EXPORT_FIELDS ==
    << [key |-> "title", defaultOn |-> TRUE],
       [key |-> "url", defaultOn |-> TRUE],
       [key |-> "channel", defaultOn |-> TRUE],
       [key |-> "views", defaultOn |-> FALSE],
       [key |-> "published", defaultOn |-> FALSE],
       [key |-> "duration", defaultOn |-> FALSE] >>

\* new Set(EXPORT_FIELDS.filter((f) => f.defaultOn).map((f) => f.key))
DefaultFields ==
    {EXPORT_FIELDS[k].key : k \in {j \in 1..Len(EXPORT_FIELDS) : EXPORT_FIELDS[j].defaultOn}}

\* a FilterPanel as its constructor leaves it: not injected, closed, its
\* inputs empty
NewPanel ==
    [injected |-> FALSE, open |-> FALSE,
     textInputs |-> [id \in {TEXT_FILTERS[k].id : k \in 1..Len(TEXT_FILTERS)} |-> <<>>],
     excludeShorts |-> FALSE, keepAfterSearch |-> FALSE]

\* an ExportButton as its field initialisers leave it; abortController is
\* the flow whose controller it holds, 0 for null; checked are the field
\* checkboxes that are checked, startDisabled the disabled of the Start button
NewExport ==
    [injected |-> FALSE, open |-> FALSE, selectedFormat |-> "csv",
     selectedFields |-> DefaultFields, checked |-> DefaultFields,
     isExporting |-> FALSE, abortController |-> 0, startDisabled |-> FALSE]

\* an Onboarding as its field initialisers leave it; reads are the answers
\* its tryStart calls wait for from storage, waits the calls that wait for
\* the filter button
NewOnboarding == [isActive |-> FALSE, reads |-> 0, waits |-> 0]

\* no callback is pending
NoTasks ==
    [storageGet |-> {}, loadState |-> {}, getUser |-> 0, refresh |-> {},
     timers |-> 0, closeTimers |-> 0, resetTimers |-> 0]

\* chrome.storage.local of a new installation: a key that is not set reads
\* as undefined, which the code takes as [] or false
NoStorage ==
    [ysp_filters |-> <<>>, ysp_keep |-> FALSE, ysp_exclude_shorts |-> FALSE,
     ysp_pro_cache |-> FALSE, ysp_onboarded |-> FALSE]

\* the page as the content script is loaded, on a results page, with st in
\* storage
UiStart(st) ==
    /\ url = "results"
    /\ phase = "start"
    /\ savedFilters = <<>>
    /\ excludeShorts = FALSE
    /\ keepAfterSearch = FALSE
    /\ filtersAppliedThisSearch = FALSE
    /\ input = <<>>
    /\ submitted = [how |-> "none", query |-> <<>>, found |-> TRUE]
    /\ panel = NewPanel
    /\ storage = st
    /\ ysp_applied = FALSE
    /\ proStatus = FALSE
    /\ paid = FALSE
    /\ tasks = NoTasks
    /\ exportBtn = NewExport
    /\ flows = <<>>
    /\ onboarding = NewOnboarding

\* the page as the content script is loaded for the first time, on the
\* results page the installation opens
UiInit == UiStart(NoStorage)

(***************************************************************************)
(* The UI layer builds the filter list from its form and the user types    *)
(* the query into the search box; a call of a core function leaves its     *)
(* result in text or entries; Return ends the call.                        *)
(***************************************************************************)
Init ==
    /\ op = "idle"
    /\ filters = <<>>
    /\ query = <<>>
    /\ text = <<>>
    /\ entries = <<>>
    /\ lines = <<>>
    /\ options = [given |-> FALSE, excludeShorts |-> "undefined"]
    /\ catalog = TEXT_FILTERS
    /\ UiInit

\* the UI adds an entry, its value still empty
AddFilter ==
    /\ op = "idle"
    /\ SizeOf(filters) + 2 <= MaxSize
    /\ \E id \in Ids : filters' = Append(filters, [id |-> id, value |-> <<>>])
    /\ UNCHANGED <<op, query, options, text, entries, lines, catalog, ui>>

\* the user types a character into the value of the last entry
TypeValue ==
    /\ op = "idle"
    /\ filters # <<>>
    /\ SizeOf(filters) + 1 <= MaxSize
    /\ \E c \in ValueChars :
        filters' = [filters EXCEPT ![Len(filters)].value = Append(@, c)]
    /\ UNCHANGED <<op, query, options, text, entries, lines, catalog, ui>>

\* the user types a character or an operator keyword into the search box
TypeQuery ==
    /\ op = "idle"
    /\ \E piece \in {<<c>> : c \in TypedChars} \cup Keywords :
        /\ InQueries(query \o piece)
        /\ query' = query \o piece
    /\ UNCHANGED <<op, filters, options, text, entries, lines, catalog, ui>>

\* the caller types a character of the value it passes to csvEscape
TypeCell ==
    /\ op = "idle"
    /\ Len(query) < MaxCell
    /\ \E c \in CsvChars : query' = Append(query, c)
    /\ UNCHANGED <<op, filters, options, text, entries, lines, catalog, ui>>

\* the caller chooses the options it passes to buildPreviewLines
SetOptions ==
    /\ op = "idle"
    /\ \E o \in Options \ {options} : options' = o
    /\ UNCHANGED <<op, filters, query, text, entries, lines, catalog, ui>>

\* a slip of BuildQueryString: the values are trimmed in place, in the
\* entries of the caller
BuildQueryStringTrimInPlace ==
    /\ op = "idle"
    /\ op' = Outcome("buildQueryString", buildQueryStringThrows(filters))
    /\ text' = IF op' = "error" THEN <<>> ELSE buildQueryString(filters)
    /\ filters' = [k \in 1..Len(filters) |->
                        [id |-> filters[k].id, value |-> trim(filters[k].value)]]
    /\ UNCHANGED <<query, options, entries, lines, catalog, ui>>

\* buildQueryString(filters)
BuildQueryString ==
    /\ op = "idle"
    /\ op' = Outcome("buildQueryString", buildQueryStringThrows(filters))
    /\ text' = IF op' = "error" THEN <<>> ELSE buildQueryString(filters)
    /\ UNCHANGED <<filters, query, options, entries, lines, catalog, ui>>

\* parseQueryFilters(buildQueryString(filters)): what was built is parsed back
ParseBuilt ==
    /\ op = "buildQueryString"
    /\ op' = Outcome("roundTrip", parseQueryFiltersThrows(text))
    /\ entries' = IF op' = "error" THEN <<>> ELSE parseQueryFilters(text)
    /\ UNCHANGED <<filters, query, options, text, lines, catalog, ui>>

\* parseQueryFilters(query)
ParseQueryFilters ==
    /\ op = "idle"
    /\ op' = Outcome("parseQueryFilters", parseQueryFiltersThrows(query))
    /\ entries' = IF op' = "error" THEN <<>> ELSE parseQueryFilters(query)
    /\ UNCHANGED <<filters, query, options, text, lines, catalog, ui>>

\* stripOperators(query)
StripOperators ==
    /\ op = "idle"
    /\ text' = stripOperators(query)
    /\ op' = "stripOperators"
    /\ UNCHANGED <<filters, query, options, entries, lines, catalog, ui>>

\* csvEscape(query)
CsvEscape ==
    /\ op = "idle"
    /\ text' = csvEscape(query)
    /\ op' = "csvEscape"
    /\ UNCHANGED <<filters, query, options, entries, lines, catalog, ui>>

\* buildPreviewLines(filters, options)
BuildPreviewLines ==
    /\ op = "idle"
    /\ op' = Outcome("buildPreviewLines", buildPreviewLinesThrows(filters, options))
    /\ lines' = IF op' = "error" THEN <<>> ELSE buildPreviewLines(filters, options)
    /\ UNCHANGED <<filters, query, options, text, entries, catalog, ui>>

\* the caller takes the result; the core keeps nothing of the call, and the
\* filter list and the search box are as they were
Return ==
    /\ op # "idle"
    /\ op' = "idle"
    /\ text' = <<>>
    /\ entries' = <<>>
    /\ lines' = <<>>
    /\ UNCHANGED <<filters, query, options, catalog, ui>>

\* the filter list is built and the builder called, what it built parsed back
NextBuild == AddFilter \/ TypeValue \/ BuildQueryString \/ ParseBuilt \/ Return
SpecBuild == Init /\ [][NextBuild]_vars

\* the query is typed and the parser called
NextParse == TypeQuery \/ ParseQueryFilters \/ Return
SpecParse == Init /\ [][NextParse]_vars

\* the query is typed and the stripper called
NextStrip == TypeQuery \/ StripOperators \/ Return
SpecStrip == Init /\ [][NextStrip]_vars

\* the filter list is built, the options chosen and the preview built
NextPreview == AddFilter \/ TypeValue \/ SetOptions \/ BuildPreviewLines \/ Return
SpecPreview == Init /\ [][NextPreview]_vars

\* a value is typed and escaped
NextCsv == TypeCell \/ CsvEscape \/ Return
SpecCsv == Init /\ [][NextCsv]_vars

\* the size of the arguments together: that of the filter list, the pieces
\* of the query, and one for options that are given
CoreSize(fs, q, o) == SizeOf(fs) + PieceCount(q, 1) + (IF o.given THEN 1 ELSE 0)

\* every function of the core is called, in any order, with arguments of
\* at most MaxCore together
CoreInput ==
    /\ AddFilter \/ TypeValue \/ TypeQuery \/ SetOptions
    /\ CoreSize(filters', query', options') <= MaxCore
CoreCall ==
    \/ BuildQueryString \/ ParseBuilt \/ ParseQueryFilters \/ StripOperators
    \/ BuildPreviewLines \/ CsvEscape
NextCore == CoreInput \/ CoreCall \/ Return
SpecCore == Init /\ [][NextCore]_vars

(***************************************************************************)
(* What the properties are stated with: the catalog's ids, words, and the  *)
(* places of a string, said without the functions of the source.           *)
(***************************************************************************)
CatalogIds == {"after", "before", "intitle", "exact", "exclude", "channel", "hashtag"}

IsBlank(v) == \A i \in 1..Len(v) : IsSpace(v[i])
HasSpace(v) == \E i \in 1..Len(v) : IsSpace(v[i])
HasQuote(v) == \E i \in 1..Len(v) : v[i] = Quote

\* an entry that is not inert: its id is in the catalog and its value is not blank
IsActive(f) == f.id \in CatalogIds /\ ~IsBlank(f.value)

Contains(es, e) == \E k \in 1..Len(es) : es[k] = e

\* the value without its leading and trailing whitespace
Trimmed(v) ==
    LET inked == {i \in 1..Len(v) : ~IsSpace(v[i])}
    IN  IF inked = {} THEN <<>>
        ELSE SubSeq(v, Min(inked), CHOOSE j \in inked : \A k \in inked : k <= j)

RECURSIVE Ascending(_)
Ascending(S) ==
    IF S = {} THEN <<>> ELSE <<Min(S)>> \o Ascending(S \ {Min(S)})

\* the whitespace-separated words of s, in order
WordStarts(s) == {i \in 1..Len(s) : ~IsSpace(s[i]) /\ (i = 1 \/ IsSpace(s[i - 1]))}
WordEnd(s, i) ==
    CHOOSE j \in i..Len(s) :
        /\ \A k \in i..j : ~IsSpace(s[k])
        /\ (j = Len(s) \/ IsSpace(s[j + 1]))
WordsOf(s) ==
    LET starts == Ascending(WordStarts(s))
    IN  [n \in 1..Len(starts) |-> SubSeq(s, starts[n], WordEnd(s, starts[n]))]

\* the words joined by single spaces
RECURSIVE SpaceJoined(_)
SpaceJoined(ws) ==
    IF ws = <<>> THEN <<>>
    ELSE IF Len(ws) = 1 THEN ws[1]
    ELSE ws[1] \o <<Space>> \o SpaceJoined(Tail(ws))

\* the operator token of an id rendered as prefix (exact wraps instead)
PrefixOf(id) ==
    CASE id = "after" -> AfterOp
      [] id = "before" -> BeforeOp
      [] id = "intitle" -> IntitleOp
      [] id = "channel" -> ChannelOp
      [] id = "hashtag" -> <<Hash>>
      [] id = "exclude" -> <<Dash>>

PrefixIds == {"after", "before", "intitle", "channel", "hashtag"}

\* a call of buildQueryString has returned (text is still its result after
\* the string was parsed back)
Built == op \in {"buildQueryString", "roundTrip"}

(***************************************************************************)
(* C1  Round trip.  The claim as stated: for a single entry f of a catalog *)
(* id with a non-blank value, parseQueryFilters(buildQueryString([f]))     *)
(* contains an entry equal to f; for exclude, an exclude entry whose value *)
(* is the words of f's value joined by single spaces.                      *)
(***************************************************************************)
RoundTripEntry(f) ==
    IF f.id = "exclude"
    THEN [id |-> "exclude", value |-> SpaceJoined(WordsOf(f.value))]
    ELSE f

C1_RoundTripAnyValue ==
    (op = "roundTrip" /\ Len(filters) = 1 /\ IsActive(filters[1]))
        => Contains(entries, RoundTripEntry(filters[1]))

\* C1 as amended: the round trip holds for the values the parser can give
\* back: after, before, intitle, channel, hashtag with a value without any
\* whitespace; exact with a value without leading or trailing whitespace and
\* without a double quote; exclude with any non-blank value, given back as
\* its words joined by single spaces.
RoundTrips(f) ==
    CASE f.id \in PrefixIds -> ~HasSpace(f.value)
      [] f.id = "exact" -> Trimmed(f.value) = f.value /\ ~HasQuote(f.value)
      [] f.id = "exclude" -> TRUE

C1_RoundTrip ==
    (op = "roundTrip" /\ Len(filters) = 1 /\ IsActive(filters[1])
        /\ RoundTrips(filters[1]))
        => Contains(entries, RoundTripEntry(filters[1]))

\* an exclude entry of two words separated by a tab came back as one entry,
\* the words joined by a space
C1_Witness ==
    /\ op = "roundTrip"
    /\ filters = << [id |-> "exclude", value |-> <<"a", "\t", "b">>] >>
    /\ entries = << [id |-> "exclude", value |-> <<"a", Space, "b">>] >>

(***************************************************************************)
(* C2  stripOperators is idempotent: stripping what stripOperators         *)
(* returned changes nothing.                                               *)
(***************************************************************************)
C2_StripIdempotent ==
    op = "stripOperators" => stripOperators(text) = text

(***************************************************************************)
(* C3  stripOperators leaves no trace of an operator: the parser finds no  *)
(* entry in what stripOperators returned.                                  *)
(***************************************************************************)
C3_StripLeavesNoOperator ==
    op = "stripOperators" => parseQueryFilters(text) = <<>>

(***************************************************************************)
(* C4  The passes of stripOperators, each over what the passes before it   *)
(* left, give the same string as removing from the original string every   *)
(* span that one of the rules matches in it, followed by the same          *)
(* whitespace normalization.                                               *)
(***************************************************************************)
\* the positions of s inside a match of re in s
RECURSIVE MatchedFrom(_, _, _)
MatchedFrom(re, s, i) ==
    IF i > Len(s) THEN {}
    ELSE LET n == MatchLen(re, s, i)
         IN  IF n > 0
             THEN (i..(i + n - 1)) \cup MatchedFrom(re, s, i + n)
             ELSE MatchedFrom(re, s, i + 1)

MatchedByAnyRule(s) ==
    UNION {MatchedFrom(StripPasses[k], s, 1) : k \in 1..Len(StripPasses)}

\* s without the positions in the set gone
RECURSIVE Without(_, _, _)
Without(s, gone, i) ==
    IF i > Len(s) THEN <<>>
    ELSE (IF i \in gone THEN <<>> ELSE <<s[i]>>) \o Without(s, gone, i + 1)

StripOriginalSpans(s) == normalizeSpaces(Without(s, MatchedByAnyRule(s), 1))

C4_PassesEqualOriginalSpans ==
    op = "stripOperators" => text = StripOriginalSpans(query)

(***************************************************************************)
(* C5  Inert entries do not affect buildQueryString: what it returns is    *)
(* what it returns for the list without the entries whose value is blank   *)
(* or whose id is not in the catalog, and a list of inert entries only     *)
(* (or the empty list) gives the empty string.                             *)
(***************************************************************************)
RECURSIVE ActiveOnly(_)
ActiveOnly(fs) ==
    IF fs = <<>> THEN <<>>
    ELSE (IF IsActive(Head(fs)) THEN <<Head(fs)>> ELSE <<>>) \o ActiveOnly(Tail(fs))

C5_InertEntriesIgnored ==
    Built =>
        /\ text = buildQueryString(ActiveOnly(filters))
        /\ (ActiveOnly(filters) = <<>> => text = <<>>)
        /\ (ActiveOnly(filters) # <<>> => text # <<>>)

\* a list of an active entry and an entry that is inert though its value is
\* not empty (whitespace only, or an id that is not in the catalog) was built
C5_Witness ==
    /\ op = "buildQueryString"
    /\ \E i, k \in 1..Len(filters) :
        /\ ~IsActive(filters[i]) /\ filters[i].value # <<>>
        /\ IsActive(filters[k])
    /\ text # <<>>

(***************************************************************************)
(* C6  buildQueryString keeps the order of its input and joins with one    *)
(* space: for every split of the list into xs and ys, the string built for *)
(* the list is the two strings built for xs and ys joined by one space     *)
(* (the other one when one is empty), and it neither starts nor ends with  *)
(* a whitespace character.                                                 *)
(***************************************************************************)
JoinedBySpace(x, y) ==
    IF x = <<>> THEN y ELSE IF y = <<>> THEN x ELSE x \o <<Space>> \o y

C6_OrderAndSingleSpace ==
    Built =>
        /\ \A k \in 0..Len(filters) :
            text = JoinedBySpace(buildQueryString(SubSeq(filters, 1, k)),
                                 buildQueryString(SubSeq(filters, k + 1, Len(filters))))
        /\ (text # <<>> => ~IsSpace(text[1]) /\ ~IsSpace(text[Len(text)]))

\* two active entries of different ids and values were built
C6_Witness ==
    /\ op = "buildQueryString"
    /\ Len(filters) = 2
    /\ IsActive(filters[1]) /\ IsActive(filters[2])
    /\ filters[1].id # filters[2].id
    /\ Trimmed(filters[1].value) # Trimmed(filters[2].value)
    /\ HasSpace(text)

(***************************************************************************)
(* C7  A single active entry with trimmed value v is rendered: exact as v  *)
(* in double quotes; hashtag as # and v; after, before, intitle, channel   *)
(* as the operator token and v with no space between; exclude as one       *)
(* -word token for each whitespace-separated word of v, in order, the      *)
(* tokens separated by single spaces.                                      *)
(***************************************************************************)
C7_Rendering ==
    (Built /\ Len(filters) = 1 /\ IsActive(filters[1])) =>
        LET f == filters[1]
            v == Trimmed(f.value)
            words == WordsOf(v)
        IN  CASE f.id = "exact" -> text = <<Quote>> \o v \o <<Quote>>
              [] f.id \in PrefixIds -> text = PrefixOf(f.id) \o v
              [] f.id = "exclude" ->
                    /\ Len(WordsOf(text)) = Len(words)
                    /\ \A n \in 1..Len(words) : WordsOf(text)[n] = <<Dash>> \o words[n]
                    /\ text = SpaceJoined(WordsOf(text))

\* an exclude entry of two different words, with whitespace around them, was built
C7_Witness ==
    /\ op = "buildQueryString"
    /\ Len(filters) = 1
    /\ filters[1].id = "exclude"
    /\ Len(WordsOf(filters[1].value)) = 2
    /\ WordsOf(filters[1].value)[1] # WordsOf(filters[1].value)[2]
    /\ Trimmed(filters[1].value) # filters[1].value
    /\ Len(WordsOf(text)) = 2

(***************************************************************************)
(* C8  parseQueryFilters returns its entries in the fixed order after,     *)
(* before, intitle, exact, exclude, channel, hashtag, whatever the order   *)
(* of the operators in the query: the ids of the result never go back in   *)
(* that order, and the query whose whitespace-separated tokens are put in  *)
(* another order gives the same ids in the same order.                     *)
(***************************************************************************)
ScanRank(id) ==
    CASE id = "after" -> 1
      [] id = "before" -> 2
      [] id = "intitle" -> 3
      [] id = "exact" -> 4
      [] id = "exclude" -> 5
      [] id = "channel" -> 6
      [] id = "hashtag" -> 7

\* the ids of a result in their order, each once
IdOrder(es) ==
    LET firsts == {k \in 1..Len(es) : \A h \in 1..(k - 1) : es[h].id # es[k].id}
        at == Ascending(firsts)
    IN  [n \in 1..Len(at) |-> es[at[n]].id]

Orderings(n) == {p \in [1..n -> 1..n] : \A i, j \in 1..n : p[i] = p[j] => i = j}

C8_FixedScanOrder ==
    op = "parseQueryFilters" =>
        /\ \A i, j \in 1..Len(entries) :
            i < j => ScanRank(entries[i].id) <= ScanRank(entries[j].id)
        /\ LET tokens == WordsOf(query)
           IN  \A p \in Orderings(Len(tokens)) :
                   IdOrder(parseQueryFilters(
                       SpaceJoined([n \in 1..Len(tokens) |-> tokens[p[n]]])))
                   = IdOrder(entries)

\* a query whose last token holds an operator that is scanned before the
\* operator of its first token was parsed
C8_Witness ==
    /\ op = "parseQueryFilters"
    /\ Len(entries) >= 2
    /\ LET tokens == WordsOf(query)
       IN  /\ Len(tokens) >= 2
           /\ parseQueryFilters(tokens[1]) # <<>>
           /\ parseQueryFilters(tokens[Len(tokens)]) # <<>>
           /\ ScanRank(parseQueryFilters(tokens[1])[1].id)
                > ScanRank(parseQueryFilters(tokens[Len(tokens)])[1].id)

(***************************************************************************)
(* C9  For after, before, intitle, channel and hashtag, parseQueryFilters  *)
(* gives at most one entry, and one exactly when the operator occurs in    *)
(* the query (its token followed by a non-whitespace character); the value *)
(* is the run of non-whitespace characters that follows the leftmost       *)
(* occurrence, also when the operator occurs several times.                *)
(***************************************************************************)
Occurrences(lit, q) ==
    {i \in 1..Len(q) :
        /\ HasAt(q, i, lit)
        /\ i + Len(lit) <= Len(q)
        /\ ~IsSpace(q[i + Len(lit)])}

RunAfter(lit, q, i) == SubSeq(q, i + Len(lit), WordEnd(q, i + Len(lit)))

EntriesOf(id, es) == {k \in 1..Len(es) : es[k].id = id}

C9_FirstOccurrenceOnly ==
    op = "parseQueryFilters" =>
        \A id \in PrefixIds :
            LET occ == Occurrences(PrefixOf(id), query)
                got == EntriesOf(id, entries)
            IN  /\ Cardinality(got) <= 1
                /\ (occ = {}) = (got = {})
                /\ \A k \in got :
                       entries[k].value = RunAfter(PrefixOf(id), query, Min(occ))

\* an operator occurs twice, the runs after its two occurrences differ, and
\* its entry holds the first
C9_Witness ==
    /\ op = "parseQueryFilters"
    /\ \E id \in PrefixIds :
        LET occ == Occurrences(PrefixOf(id), query)
        IN  /\ Cardinality(occ) >= 2
            /\ \E i \in occ : RunAfter(PrefixOf(id), query, i)
                                # RunAfter(PrefixOf(id), query, Min(occ))
            /\ \E k \in EntriesOf(id, entries) :
                   entries[k].value = RunAfter(PrefixOf(id), query, Min(occ))

(***************************************************************************)
(* C10  parseQueryFilters gives one exact entry for each double-quoted     *)
(* span of the query, in the order of the spans, its value the characters  *)
(* between the two quotes.  The spans are read from left to right: a span  *)
(* is a quote, one or more characters that are not quotes, and the next    *)
(* quote, and the closing quote of a span opens no other span.             *)
(***************************************************************************)
\* the quote at i and the next quote at j enclose one character or more
Encloses(q, i, j) ==
    /\ i < j - 1
    /\ j <= Len(q)
    /\ q[i] = Quote /\ q[j] = Quote
    /\ \A k \in (i + 1)..(j - 1) : q[k] # Quote

\* the positions of the opening quotes of the spans of q, those before
\* position i given
RECURSIVE SpanStarts(_, _, _)
SpanStarts(q, i, before) ==
    IF i > Len(q) THEN before
    ELSE LET closes == \E h \in before : Encloses(q, h, i)
             opens == ~closes /\ \E j \in (i + 2)..Len(q) : Encloses(q, i, j)
         IN  SpanStarts(q, i + 1, IF opens THEN before \cup {i} ELSE before)

SpanContent(q, i) == SubSeq(q, i + 1, i + NonQuoteRun(q, i + 1))

QuotedSpans(q) ==
    LET starts == Ascending(SpanStarts(q, 1, {}))
    IN  [n \in 1..Len(starts) |-> SpanContent(q, starts[n])]

ExactValues(es) ==
    LET at == Ascending(EntriesOf("exact", es))
    IN  [n \in 1..Len(at) |-> es[at[n]].value]

C10_OneExactPerSpan ==
    op = "parseQueryFilters" => ExactValues(entries) = QuotedSpans(query)

\* a query with two quoted spans of different contents was parsed
C10_Witness ==
    /\ op = "parseQueryFilters"
    /\ Len(QuotedSpans(query)) = 2
    /\ QuotedSpans(query)[1] # QuotedSpans(query)[2]
    /\ Cardinality(EntriesOf("exact", entries)) = 2

(***************************************************************************)
(* C11  parseQueryFilters takes a dash as an exclude marker only at the    *)
(* start of the string or after whitespace, and when a non-whitespace      *)
(* character follows it; the words after the markers are merged, in order  *)
(* of appearance, into exactly one exclude entry whose value is the words  *)
(* joined by single spaces, and there is no exclude entry when there is no *)
(* such word.                                                              *)
(***************************************************************************)
ExcludeMarkers(q) ==
    {i \in 1..Len(q) :
        /\ q[i] = Dash
        /\ (i = 1 \/ IsSpace(q[i - 1]))
        /\ i < Len(q)
        /\ ~IsSpace(q[i + 1])}

ExcludedWords(q) ==
    LET at == Ascending(ExcludeMarkers(q))
    IN  [n \in 1..Len(at) |-> SubSeq(q, at[n] + 1, WordEnd(q, at[n] + 1))]

C11_ExcludeMerged ==
    op = "parseQueryFilters" =>
        LET words == ExcludedWords(query)
            got == EntriesOf("exclude", entries)
        IN  IF words = <<>> THEN got = {}
            ELSE /\ Cardinality(got) = 1
                 /\ \A k \in got : entries[k].value = SpaceJoined(words)

\* a query of two exclude words and a dash that is no marker (it follows a
\* non-whitespace character) was parsed
C11_Witness ==
    /\ op = "parseQueryFilters"
    /\ Cardinality(ExcludeMarkers(query)) >= 2
    /\ \E i \in 2..Len(query) : query[i] = Dash /\ ~IsSpace(query[i - 1])
    /\ EntriesOf("exclude", entries) # {}

(***************************************************************************)
(* C12  What stripOperators returns is whitespace-normalized: it has no    *)
(* leading or trailing whitespace and no run of two or more whitespace     *)
(* characters.  The claim as stated: a query without operator span that    *)
(* is normalized in this sense is returned unchanged.                      *)
(***************************************************************************)
NoEdgeSpace(s) == s = <<>> \/ (~IsSpace(s[1]) /\ ~IsSpace(s[Len(s)]))

NoSpaceRun(s) == \A i \in 1..(Len(s) - 1) : ~(IsSpace(s[i]) /\ IsSpace(s[i + 1]))

NoOperatorSpan(s) == MatchedByAnyRule(s) = {}

C12_NormalizedUnchanged ==
    op = "stripOperators" =>
        /\ NoEdgeSpace(text) /\ NoSpaceRun(text)
        /\ (NoOperatorSpan(query) /\ NoEdgeSpace(query) /\ NoSpaceRun(query))
            => text = query

\* C12 as amended: what stripOperators returns has no leading or trailing
\* whitespace and no whitespace but single space characters; a query without
\* operator span that is of this form is returned unchanged (a single tab
\* between two words is replaced by a space).
OnlySpaces(s) == \A i \in 1..Len(s) : IsSpace(s[i]) => s[i] = Space

C12_SingleSpaced ==
    op = "stripOperators" =>
        /\ NoEdgeSpace(text) /\ NoSpaceRun(text) /\ OnlySpaces(text)
        /\ (NoOperatorSpan(query) /\ NoEdgeSpace(query) /\ NoSpaceRun(query)
                /\ OnlySpaces(query))
            => text = query

\* a query of two words with a run of whitespace between them was stripped
\* to the words with one space between them
C12_Witness ==
    /\ op = "stripOperators"
    /\ \E i \in 1..(Len(query) - 1) : IsSpace(query[i]) /\ IsSpace(query[i + 1])
    /\ \E j \in 2..(Len(text) - 1) : text[j] = Space

(***************************************************************************)
(* buildPreviewLines: what its properties are stated with.                 *)
(***************************************************************************)
\* a call of buildPreviewLines has returned
Previewed == op = "buildPreviewLines"

\* the excludeShorts option is true (it is falsy when it is false or absent,
\* or when no options are given)
ShortsExcluded == options.given /\ options.excludeShorts = "true"

\* the places of the lines with a label
Labelled(ls, label) == {k \in 1..Len(ls) : ls[k].label = label}

(***************************************************************************)
(* C13  The claim as stated: the first line buildPreviewLines emits has    *)
(* the connector "", whatever filter produced it, for every output that is *)
(* not empty.                                                              *)
(***************************************************************************)
C13_FirstConnectorEmpty ==
    (Previewed /\ lines # <<>>) => lines[1].connector = ""

\* C13 as amended: the first line has the connector "" when an after,
\* before, intitle, channel, exact or hashtag entry produced it; it has the
\* connector "NOT" when it is an exclude line or the Shorts line.
C13_FirstConnector ==
    (Previewed /\ lines # <<>>) =>
        IF lines[1].label \in {"Exclude", "Shorts"}
        THEN lines[1].connector = "NOT"
        ELSE lines[1].connector = ""

\* the first line came from the second entry of the list, the first one
\* being inert, and more lines follow it
C13_Witness ==
    /\ Previewed
    /\ Len(filters) >= 2
    /\ ~IsActive(filters[1])
    /\ Len(lines) >= 2
    /\ lines[1].connector = ""
    /\ lines[2].connector # ""

(***************************************************************************)
(* C14  For an active exclude entry buildPreviewLines emits one line for   *)
(* each whitespace-separated word of its trimmed value, with connector     *)
(* "NOT", label "Exclude" and the word as value, also when it is the first *)
(* line of the output: the Exclude lines of the output are, in order, the  *)
(* words of the active exclude entries of the list.                        *)
(***************************************************************************)
RECURSIVE ExcludeWordsOfList(_)
ExcludeWordsOfList(fs) ==
    IF fs = <<>> THEN <<>>
    ELSE (IF Head(fs).id = "exclude" /\ IsActive(Head(fs))
          THEN WordsOf(Trimmed(Head(fs).value))
          ELSE <<>>) \o ExcludeWordsOfList(Tail(fs))

C14_ExcludeLines ==
    Previewed =>
        LET at == Ascending(Labelled(lines, "Exclude"))
            words == ExcludeWordsOfList(filters)
        IN  /\ Len(at) = Len(words)
            /\ \A n \in 1..Len(at) :
                lines[at[n]] = [connector |-> "NOT", label |-> "Exclude",
                                value |-> words[n]]

\* an exclude entry of two words, the first active entry of the list, gave
\* the first two lines of the output
C14_Witness ==
    /\ Previewed
    /\ filters # <<>>
    /\ filters[1].id = "exclude"
    /\ Len(WordsOf(filters[1].value)) = 2
    /\ Len(lines) >= 2
    /\ lines[1].connector = "NOT" /\ lines[1].label = "Exclude"
    /\ lines[2].connector = "NOT" /\ lines[2].label = "Exclude"

(***************************************************************************)
(* C15  Every line of an after, before, intitle, channel or exact entry    *)
(* that is not the first line of the output has the connector "AND", also  *)
(* when only exclude lines come before it.                                 *)
(***************************************************************************)
AndLabels == {"After", "Before", "In Title", "Boost Channel", "Exact"}

C15_SubsequentAnd ==
    Previewed =>
        \A k \in 2..Len(lines) :
            lines[k].label \in AndLabels => lines[k].connector = "AND"

\* the line of an after, before, intitle, channel or exact entry follows an
\* exclude line and nothing else
C15_Witness ==
    /\ Previewed
    /\ Len(lines) >= 2
    /\ lines[1].label = "Exclude"
    /\ lines[2].label \in AndLabels
    /\ lines[2].connector = "AND"

(***************************************************************************)
(* C16  When the excludeShorts option is true, the output ends with the    *)
(* line {connector: "NOT", label: "Shorts", value: ""} and holds no other  *)
(* Shorts line, whatever the filter list is; when the option is false or   *)
(* absent, the output holds no Shorts line.                                *)
(***************************************************************************)
C16_ShortsLine ==
    Previewed =>
        IF ShortsExcluded
        THEN /\ lines # <<>>
             /\ lines[Len(lines)] = [connector |-> "NOT", label |-> "Shorts",
                                     value |-> <<>>]
             /\ Labelled(lines, "Shorts") = {Len(lines)}
        ELSE Labelled(lines, "Shorts") = {}

\* the Shorts line follows the lines of the filter list
C16_Witness ==
    /\ Previewed
    /\ ShortsExcluded
    /\ Len(lines) >= 2
    /\ lines[Len(lines)].label = "Shorts"

(***************************************************************************)
(* C17  The claim as stated: buildPreviewLines returns the empty array     *)
(* only when the filter list is empty and excludeShorts is falsy.          *)
(***************************************************************************)
C17_EmptyOnlyForEmptyList ==
    (Previewed /\ lines = <<>>) => (filters = <<>> /\ ~ShortsExcluded)

\* C17 as amended: buildPreviewLines returns the empty array exactly when
\* the filter list holds no active entry (it is empty, or every entry has a
\* blank value or an id that is not in the catalog) and excludeShorts is
\* falsy.
C17_EmptyIffNothingActive ==
    Previewed =>
        (lines = <<>> <=> (ActiveOnly(filters) = <<>> /\ ~ShortsExcluded))

\* a list of inert entries only, one of them with a value that is not
\* empty, gave the empty output, the options being given
C17_Witness ==
    /\ Previewed
    /\ lines = <<>>
    /\ options.given
    /\ \E k \in 1..Len(filters) : filters[k].value # <<>>

(***************************************************************************)
(* C18  csvEscape(v) is v in double quotes, every double quote of v        *)
(* doubled, exactly when v holds a comma, a double quote, a line feed or a *)
(* carriage return; every other v, the empty string included, is returned  *)
(* unchanged.                                                              *)
(***************************************************************************)
QuotesBefore(v, i) == Cardinality({k \in 1..(i - 1) : v[k] = Quote})

\* t is v in double quotes with every double quote of v doubled
QuotedAndDoubled(t, v) ==
    /\ Len(t) = Len(v) + QuotesBefore(v, Len(v) + 1) + 2
    /\ t[1] = Quote
    /\ t[Len(t)] = Quote
    /\ \A i \in 1..Len(v) :
        LET at == 1 + i + QuotesBefore(v, i)
        IN  /\ t[at] = v[i]
            /\ (v[i] = Quote => t[at + 1] = Quote)

C18_CsvEscape ==
    op = "csvEscape" =>
        IF \E i \in 1..Len(query) : query[i] \in {",", Quote, "\n", "\r"}
        THEN QuotedAndDoubled(text, query)
        ELSE text = query

\* a value with a double quote and a carriage return, and no comma or line
\* feed, was escaped
C18_Witness ==
    /\ op = "csvEscape"
    /\ \E i \in 1..Len(query) : query[i] = Quote
    /\ \E i \in 1..Len(query) : query[i] = "\r"
    /\ \A i \in 1..Len(query) : query[i] \notin {",", "\n"}
    /\ Len(text) >= Len(query) + 3

(***************************************************************************)
(* C19  The core raises no error: whatever the query, the filter list and  *)
(* the options are (unknown ids, empty values, an unclosed quote, a bare   *)
(* after:), no call of buildQueryString, parseQueryFilters,               *)
(* stripOperators, buildPreviewLines or csvEscape ends in an error, and    *)
(* what a call returned is a value of its result type.                     *)
(***************************************************************************)
\* the characters of the arguments and of the operator tokens
AllChars ==
    ValueChars \cup TypedChars \cup CsvChars
    \cup UNION {{k[i] : i \in 1..Len(k)} : k \in Keywords}

IsString(t) == \A i \in 1..Len(t) : t[i] \in AllChars

C19_NoError ==
    /\ op # "error"
    /\ IsString(text)
    /\ \A k \in 1..Len(entries) :
        /\ entries[k].id \in CatalogIds
        /\ entries[k].value # <<>>
        /\ IsString(entries[k].value)
    /\ \A k \in 1..Len(lines) :
        /\ lines[k].connector \in {"", "AND", "NOT"}
        /\ IsString(lines[k].value)

\* a bare after: and an unclosed quote were parsed: no entry, no error
C19_Witness ==
    /\ op = "parseQueryFilters"
    /\ query = AfterOp \o <<Space, Quote>>
    /\ entries = <<>>

(***************************************************************************)
(* C20  The core holds no state and changes nothing: a call of             *)
(* buildQueryString, parseQueryFilters, stripOperators or                  *)
(* buildPreviewLines (or csvEscape) leaves the catalog TEXT_FILTERS and    *)
(* its arguments as they were, the entries of the filter list with their   *)
(* untrimmed values, and what it returns is given by its arguments alone,  *)
(* whatever calls were made before it.                                     *)
(***************************************************************************)
\* the step is a call of a function of the core
IsCall == op' # op /\ op' # "idle"

C20_CallsChangeNothing ==
    [][ /\ catalog' = TEXT_FILTERS
        /\ IsCall =>
            /\ filters' = filters /\ query' = query /\ options' = options
            /\ catalog' = catalog
            /\ op' = "buildQueryString" =>
                (text' = buildQueryString(filters) /\ entries' = <<>> /\ lines' = <<>>)
            /\ op' = "roundTrip" =>
                (entries' = parseQueryFilters(text) /\ text' = text /\ lines' = <<>>)
            /\ op' = "parseQueryFilters" =>
                (entries' = parseQueryFilters(query) /\ text' = <<>> /\ lines' = <<>>)
            /\ op' = "stripOperators" =>
                (text' = stripOperators(query) /\ entries' = <<>> /\ lines' = <<>>)
            /\ op' = "csvEscape" =>
                (text' = csvEscape(query) /\ entries' = <<>> /\ lines' = <<>>)
            /\ op' = "buildPreviewLines" =>
                (lines' = buildPreviewLines(filters, options) /\ text' = <<>>
                    /\ entries' = <<>>)
      ]_vars

\* after a call of buildQueryString and one of parseQueryFilters, an entry
\* of the filter list still has its value of whitespace, and the catalog is
\* the one of the start
C20_Witness ==
    /\ op = "roundTrip"
    /\ catalog = TEXT_FILTERS
    /\ \E k \in 1..Len(filters) :
        filters[k].id \in CatalogIds /\ filters[k].value = <<Space>>

(***************************************************************************)
(* The content script (src/unnamed/part_002), its filter panel             *)
(* (src/src/panel.ts) and the paygate (src/unnamed/part_000).  A callback  *)
(* that the code hands to storage, to a timer or to ExtPay is pending in   *)
(* tasks until a step of its own delivers it; chrome.storage.local serves  *)
(* its requests in the order they were made, so a read answers with what   *)
(* storage held when the read was made.                                    *)
(***************************************************************************)
\* characters typed into the inputs of the filter panel and into the search
\* box, together
MaxTyped == 2
\* length of the search box at which a search is still triggered
MaxQuery == 8
\* 500 ms timers of showExportIfOnResults that are pending together
MaxTimers == 2
\* tryStart calls of the onboarding tour that are pending together
MaxCalls == 3

Urls == {"home", "results"}

\* the inputs of the panel the user types into: one for each way
\* buildQueryString renders a value (a keyword before it, quotes around it,
\* a dash before each word)
TextIds == {"intitle", "exact", "exclude"}

\* the characters typed into an input of the panel, and into the search box
PanelChars == {"a", Quote}
BoxChars == {"a", Quote, Dash}

\* what is typed into the panel and the search box, in characters
RECURSIVE TypedIn(_, _)
TypedIn(p, ids) ==
    IF ids = {} THEN 0
    ELSE LET id == CHOOSE x \in ids : TRUE
         IN  Len(p.textInputs[id]) + TypedIn(p, ids \ {id})
Typed(p, box) == TypedIn(p, DOMAIN p.textInputs) + Len(box)

\* FilterPanel.getFiltersFromInputs: the inputs that are not blank, trimmed,
\* in the order of the catalog
getFiltersFromInputs(p) ==
    LET all == [k \in 1..Len(TEXT_FILTERS) |->
                    [id |-> TEXT_FILTERS[k].id,
                     value |-> trim(p.textInputs[TEXT_FILTERS[k].id])]]
        Filled(f) == f.value # <<>>
    IN  SelectSeq(all, Filled)

\* FilterPanel.saveState and saveKeepSetting: what they set in storage
saveState(st, p, fs) ==
    [st EXCEPT !.ysp_filters = fs, !.ysp_exclude_shorts = p.excludeShorts]
saveKeepSetting(st, p) == [st EXCEPT !.ysp_keep = p.keepAfterSearch]

\* what a read of ysp_filters, ysp_keep and ysp_exclude_shorts answers
readState(st) ==
    [ysp_filters |-> st.ysp_filters, ysp_keep |-> st.ysp_keep,
     ysp_exclude_shorts |-> st.ysp_exclude_shorts]

\* the value loadState leaves in the input of id: that of the last entry of
\* the stored filters with this id
RECURSIVE loadedValue(_, _, _)
loadedValue(fs, id, v) ==
    IF fs = <<>> THEN v
    ELSE loadedValue(Tail(fs), id, IF Head(fs).id = id THEN Head(fs).value ELSE v)

\* FilterPanel.loadState, once storage has answered with result
loadState(p, result) ==
    [p EXCEPT !.keepAfterSearch = result.ysp_keep,
              !.excludeShorts = result.ysp_exclude_shorts,
              !.textInputs = [id \in DOMAIN @ |->
                                loadedValue(result.ysp_filters, id, @[id])]]

\* FilterPanel.inject: nothing when the button is there, or when the page
\* has no search box yet
inject(p, found) == IF p.injected \/ ~found THEN p ELSE [p EXCEPT !.injected = TRUE]

\* the read loadState makes when inject has built the panel
injectReads(p, found, st) == IF ~p.injected /\ found THEN {readState(st)} ELSE {}

\* FilterPanel.clearAfterSearch: the panel it leaves
clearAfterSearch(p) ==
    IF p.keepAfterSearch THEN p
    ELSE [p EXCEPT !.textInputs = [id \in DOMAIN @ |-> <<>>], !.excludeShorts = FALSE]

\* FilterPanel.clearAfterSearch: the storage it leaves
clearAfterSearchSaves(p, st) ==
    IF p.keepAfterSearch THEN st ELSE saveState(st, clearAfterSearch(p), <<>>)

\* FilterPanel.resetToFree
resetToFree(p) == [p EXCEPT !.excludeShorts = FALSE, !.keepAfterSearch = FALSE]

\* ExportButton.inject: nothing when the button is there, or when the
\* filter button is not
injectExport(e, filterBtn) ==
    IF e.injected \/ ~filterBtn THEN e ELSE [e EXCEPT !.injected = TRUE]

\* a slip of closeExport: the class ysp-open is left on the panel
closeExportLeftOpen(e) == [e EXCEPT !.isExporting = FALSE]

\* ExportButton.close: the button it leaves, and the flow it aborts
closeExport(e) == [e EXCEPT !.isExporting = FALSE, !.open = FALSE]
abortedBy(e, fl) ==
    IF e.isExporting /\ e.abortController # 0
    THEN [fl EXCEPT ![e.abortController].aborted = TRUE]
    ELSE fl

\* Onboarding.start: nothing when the tour is shown
start(o) == IF o.isActive THEN o ELSE [o EXCEPT !.isActive = TRUE]
startSaves(o, st) == IF o.isActive THEN st ELSE [st EXCEPT !.ysp_onboarded = TRUE]

\* Onboarding.tryStart: the read of ysp_onboarded it waits for; a call that
\* is answered true returns at once and leaves nothing
tryStart(o, st) == IF st.ysp_onboarded THEN o ELSE [o EXCEPT !.reads = @ + 1]

\* the calls of tryStart that wait for the filter button, once it is there:
\* their observers run in one task, each calls start
resolveWaits(o, filterBtn) ==
    IF filterBtn /\ o.waits > 0 THEN [start(o) EXCEPT !.waits = 0] ELSE o
resolveWaitsSaves(o, filterBtn, st) ==
    IF filterBtn /\ o.waits > 0 THEN startSaves(o, st) ELSE st

\* showExportIfOnResults: the 500 ms timer it sets on a results page
showExportIfOnResults(t, u) ==
    IF u = "results" THEN [t EXCEPT !.timers = @ + 1] ELSE t

\* init() of the content script: the cached Pro status, the panel and the
\* export button injected when the page has its search box, the reads of
\* storage, the flag of a search that reloaded the page, the ExtPay request
InitScript ==
    /\ phase = "start"
    /\ phase' = "ready"
    /\ proStatus' = storage.ysp_pro_cache
    /\ \E found \in BOOLEAN :
        LET p == inject(panel, found)
            t1 == [tasks EXCEPT !.loadState = injectReads(panel, found, storage)]
            t2 == IF p.injected THEN showExportIfOnResults(t1, url) ELSE t1
        IN  /\ panel' = p
            /\ exportBtn' = IF p.injected THEN injectExport(exportBtn, TRUE) ELSE exportBtn
            /\ tasks' = [t2 EXCEPT !.storageGet = {readState(storage)}, !.getUser = 1]
    /\ filtersAppliedThisSearch' = (filtersAppliedThisSearch \/ ysp_applied)
    /\ ysp_applied' = FALSE
    /\ UNCHANGED <<core, url, savedFilters, excludeShorts, keepAfterSearch, input,
                   submitted, storage, paid, flows, onboarding>>

\* the MutationObserver of init, while the panel is not injected: inject is
\* tried again, and showExportIfOnResults called when it succeeds
Mutation ==
    /\ phase = "ready"
    /\ ~panel.injected
    /\ tasks.timers < MaxTimers
    /\ panel' = inject(panel, TRUE)
    /\ exportBtn' = injectExport(exportBtn, TRUE)
    /\ tasks' = showExportIfOnResults(
                    [tasks EXCEPT !.loadState = @ \cup injectReads(panel, TRUE, storage)], url)
    /\ onboarding' = resolveWaits(onboarding, TRUE)
    /\ storage' = resolveWaitsSaves(onboarding, TRUE, storage)
    /\ UNCHANGED <<core, url, phase, script, input, submitted, ysp_applied,
                   proStatus, paid, flows>>

\* the callback of the content script's chrome.storage.local.get
StorageGetReturns ==
    /\ \E result \in tasks.storageGet :
        /\ savedFilters' = result.ysp_filters
        /\ excludeShorts' = result.ysp_exclude_shorts
        /\ keepAfterSearch' = result.ysp_keep
        /\ tasks' = [tasks EXCEPT !.storageGet = @ \ {result}]
    /\ UNCHANGED <<core, url, phase, filtersAppliedThisSearch, input, submitted,
                   panel, storage, ysp_applied, proStatus, paid, exportBtn, flows,
                   onboarding>>

\* FilterPanel.loadState resumes with what storage answered
LoadStateReturns ==
    /\ \E result \in tasks.loadState :
        /\ panel' = loadState(panel, result)
        /\ tasks' = [tasks EXCEPT !.loadState = @ \ {result}]
    /\ UNCHANGED <<core, url, phase, script, input, submitted, storage, ysp_applied,
                   proStatus, paid, exportBtn, flows, onboarding>>

\* the callbacks registered with onResetToFree, called one after the other:
\* that of the panel once it is injected, that of the export button once it
\* is; what they leave of the panel, storage, the export button, the flows
freeResetPanel(p) == IF p.injected THEN resetToFree(p) ELSE p
freeResetSaves(p, st) == IF p.injected THEN saveKeepSetting(st, resetToFree(p)) ELSE st
freeResetExport(e) ==
    IF e.injected THEN [closeExport(e) EXCEPT !.selectedFormat = "notic"] ELSE e
freeResetFlows(e, fl) == IF e.injected THEN abortedBy(e, fl) ELSE fl

\* initProStatus, once ExtPay has answered or failed: user.paid is the
\* status, or the status is kept; it is cached
initProStatus(status, ok, userPaid) == IF ok THEN userPaid ELSE status

\* the request initProStatus made at the end of init is answered
GetUserReturns ==
    /\ tasks.getUser > 0
    /\ \E ok \in BOOLEAN :
        /\ proStatus' = initProStatus(proStatus, ok, paid)
        /\ storage' = [storage EXCEPT !.ysp_pro_cache = proStatus']
    /\ tasks' = [tasks EXCEPT !.getUser = @ - 1]
    /\ UNCHANGED <<core, url, phase, script, input, submitted, panel, ysp_applied,
                   paid, exportBtn, flows, onboarding>>

\* refreshProStatus is called: it keeps the status it finds and awaits
\* initProStatus
RefreshProStatus ==
    /\ phase = "ready"
    /\ tasks.refresh = {}
    /\ tasks' = [tasks EXCEPT !.refresh = {proStatus}]
    /\ UNCHANGED <<core, url, phase, script, input, submitted, panel, storage,
                   ysp_applied, proStatus, paid, exportBtn, flows, onboarding>>

\* refreshProStatus resumes: the callbacks are called when the status went
\* from Pro to not Pro
RefreshReturns ==
    /\ \E wasPro \in tasks.refresh, ok \in BOOLEAN :
        LET now == initProStatus(proStatus, ok, paid)
            lapsed == wasPro /\ ~now
            st == [storage EXCEPT !.ysp_pro_cache = now]
        IN  /\ proStatus' = now
            /\ panel' = IF lapsed THEN freeResetPanel(panel) ELSE panel
            /\ storage' = IF lapsed THEN freeResetSaves(panel, st) ELSE st
            /\ exportBtn' = IF lapsed THEN freeResetExport(exportBtn) ELSE exportBtn
            /\ flows' = IF lapsed THEN freeResetFlows(exportBtn, flows) ELSE flows
            /\ tasks' = [tasks EXCEPT !.refresh = @ \ {wasPro}]
    /\ UNCHANGED <<core, url, phase, script, input, submitted, ysp_applied, paid,
                   onboarding>>

\* the listener of listenForProChanges gets a ysp-pro-changed message
ProChanged ==
    /\ phase = "ready"
    /\ \E isPro \in BOOLEAN :
        LET lapsed == proStatus /\ ~isPro
            st == [storage EXCEPT !.ysp_pro_cache = isPro]
        IN  /\ proStatus' = isPro
            /\ panel' = IF lapsed THEN freeResetPanel(panel) ELSE panel
            /\ storage' = IF lapsed THEN freeResetSaves(panel, st) ELSE st
            /\ exportBtn' = IF lapsed THEN freeResetExport(exportBtn) ELSE exportBtn
            /\ flows' = IF lapsed THEN freeResetFlows(exportBtn, flows) ELSE flows
    /\ UNCHANGED <<core, url, phase, script, input, submitted, ysp_applied, paid,
                   tasks, onboarding>>

\* the user pays: the onPaid listener of listenForProChanges is called
OnPaid ==
    /\ phase = "ready"
    /\ ~paid
    /\ paid' = TRUE
    /\ proStatus' = TRUE
    /\ storage' = [storage EXCEPT !.ysp_pro_cache = TRUE]
    /\ UNCHANGED <<core, url, phase, script, input, submitted, panel, ysp_applied,
                   tasks, exportBtn, flows, onboarding>>

\* the subscription ends: ExtPay no longer holds the user as paid
Lapse ==
    /\ paid
    /\ paid' = FALSE
    /\ UNCHANGED <<core, url, phase, script, input, submitted, panel, storage,
                   ysp_applied, proStatus, tasks, exportBtn, flows, onboarding>>

\* FilterPanel.open, by a click on the filter button while the panel is
\* closed: the callback of onOpen closes the export panel
OpenPanel ==
    /\ phase = "ready"
    /\ panel.injected
    /\ ~panel.open
    /\ panel' = [panel EXCEPT !.open = TRUE]
    /\ exportBtn' = closeExport(exportBtn)
    /\ flows' = abortedBy(exportBtn, flows)
    /\ UNCHANGED <<core, url, phase, script, input, submitted, storage, ysp_applied,
                   proStatus, paid, tasks, onboarding>>

\* FilterPanel.close: by a click on the filter button while the panel is
\* open, by a click outside the panel, or 800 ms after a save
ClosePanel ==
    /\ phase = "ready"
    /\ panel.open
    /\ panel' = [panel EXCEPT !.open = FALSE]
    /\ UNCHANGED <<core, url, phase, script, input, submitted, storage, ysp_applied,
                   proStatus, paid, tasks, exportBtn, flows, onboarding>>

\* the user types a character into a text input of the open panel
TypeInput ==
    /\ phase = "ready"
    /\ panel.open
    /\ Typed(panel, input) < MaxTyped
    /\ \E id \in TextIds, c \in PanelChars :
        panel' = [panel EXCEPT !.textInputs[id] = Append(@, c)]
    /\ UNCHANGED <<core, url, phase, script, input, submitted, storage, ysp_applied,
                   proStatus, paid, tasks, exportBtn, flows, onboarding>>

\* the change listener of the Exclude Shorts toggle
ToggleExcludeShorts ==
    /\ phase = "ready"
    /\ panel.open
    /\ panel' = [panel EXCEPT !.excludeShorts = ~@]
    /\ UNCHANGED <<core, url, phase, script, input, submitted, storage, ysp_applied,
                   proStatus, paid, tasks, exportBtn, flows, onboarding>>

\* the change listener of the keep toggle, whose box shows keepAfterSearch:
\* a user who is not Pro has the box unchecked again and is shown the paygate
keepToggled(p, pro) ==
    IF ~pro /\ ~p.keepAfterSearch THEN p ELSE [p EXCEPT !.keepAfterSearch = ~@]
ToggleKeep ==
    /\ phase = "ready"
    /\ panel.open
    /\ panel' = keepToggled(panel, proStatus)
    /\ storage' = IF ~proStatus /\ ~panel.keepAfterSearch THEN storage
                  ELSE saveKeepSetting(storage, panel')
    /\ UNCHANGED <<core, url, phase, script, input, submitted, ysp_applied,
                   proStatus, paid, tasks, exportBtn, flows, onboarding>>

\* handleSave(state) of the content script
handleSave(state) ==
    /\ savedFilters' = state.text
    /\ excludeShorts' = state.excludeShorts
    /\ keepAfterSearch' = state.keepAfterSearch

\* FilterPanel.save, by a click on Save Filters
Save ==
    /\ phase = "ready"
    /\ panel.open
    /\ storage' = saveState(storage, panel, getFiltersFromInputs(panel))
    /\ handleSave([text |-> getFiltersFromInputs(panel),
                   keepAfterSearch |-> panel.keepAfterSearch,
                   excludeShorts |-> panel.excludeShorts])
    /\ UNCHANGED <<core, url, phase, filtersAppliedThisSearch, input, submitted,
                   panel, ysp_applied, proStatus, paid, tasks, exportBtn, flows,
                   onboarding>>

\* FilterPanel.clearAll, by a click on Clear All
ClearAll ==
    /\ phase = "ready"
    /\ panel.open
    /\ panel' = [panel EXCEPT !.textInputs = [id \in DOMAIN @ |-> <<>>],
                              !.excludeShorts = FALSE, !.keepAfterSearch = FALSE]
    /\ storage' = saveState(saveKeepSetting(storage, panel'), panel', <<>>)
    /\ handleSave([text |-> <<>>, keepAfterSearch |-> FALSE, excludeShorts |-> FALSE])
    /\ UNCHANGED <<core, url, phase, filtersAppliedThisSearch, input, submitted,
                   ysp_applied, proStatus, paid, tasks, exportBtn, flows, onboarding>>

\* the user types a character into the search box
TypeSearch ==
    /\ phase = "ready"
    /\ Typed(panel, input) < MaxTyped
    /\ \E c \in BoxChars : input' = Append(input, c)
    /\ UNCHANGED <<core, url, phase, script, submitted, panel, storage, ysp_applied,
                   proStatus, paid, tasks, exportBtn, flows, onboarding>>

\* a slip of fullQueryOf: the two parts are joined without the filter that
\* drops an empty one
fullQueryOfUnfiltered(rawQuery, filterString) ==
    rawQuery \o <<Space>> \o filterString

\* [rawQuery, filterString].filter(Boolean).join(" ")
NotEmpty(s) == s # <<>>
fullQueryOf(rawQuery, filterString) ==
    join(SelectSeq(<<rawQuery, filterString>>, NotEmpty), <<Space>>)

\* the query handleSearchTrigger makes of the search box and the filters
fullQuery(value, fs) ==
    fullQueryOf(stripOperators(value),
                IF fs # <<>> THEN buildQueryString(fs) ELSE <<>>)

\* what handleSearchTrigger does: "unchanged" when it returns and leaves the
\* search to the page, "box" when it writes the search box, "url" when it
\* loads the results page itself
howOf(value, fs, shorts, found) ==
    IF fs = <<>> /\ ~shorts THEN "unchanged"
    ELSE IF ~found THEN "unchanged"
    ELSE IF trim(fullQuery(value, fs)) = <<>> THEN "unchanged"
    ELSE IF shorts THEN "url"
    ELSE "box"

\* handleSearchTrigger, by Enter in the search box, a click on the search
\* button or the submit of the search form; found: findSearchInput finds
\* the search box.  submitted is what the search then submits: the query
\* the handler made, or the search box as it is when the handler returned
HandleSearchTrigger ==
    /\ phase = "ready"
    /\ Len(input) <= MaxQuery
    /\ \E found \in BOOLEAN :
        LET how == howOf(input, savedFilters, excludeShorts, found)
            full == fullQuery(input, savedFilters)
        IN  /\ submitted' = [how |-> how,
                             query |-> IF how = "unchanged" THEN input ELSE full,
                             found |-> (found \/ (savedFilters = <<>> /\ ~excludeShorts))]
            /\ input' = IF how = "box" THEN full ELSE input
            /\ ysp_applied' = (ysp_applied \/ how = "url")
            /\ phase' = IF how = "url" THEN "leaving" ELSE phase
            /\ filtersAppliedThisSearch' =
                    (filtersAppliedThisSearch \/ how \in {"url", "box"})
    /\ UNCHANGED <<core, url, savedFilters, excludeShorts, keepAfterSearch, panel,
                   storage, proStatus, paid, tasks, exportBtn, flows, onboarding>>

\* the listener of yt-navigate-finish, set by observeNavigation: the page
\* went to u; the panel is injected if it is not and the page has its
\* search box, then showExportIfOnResults
NavigateFinish ==
    /\ phase = "ready"
    /\ tasks.timers < MaxTimers
    /\ \E u \in Urls, found \in BOOLEAN :
        LET p == inject(panel, found)
        IN  /\ url' = u
            /\ panel' = p
            /\ exportBtn' = injectExport(exportBtn, p.injected)
            /\ tasks' = showExportIfOnResults(
                    [tasks EXCEPT !.loadState = @ \cup injectReads(panel, found, storage)], u)
            /\ onboarding' = resolveWaits(onboarding, p.injected)
            /\ storage' = resolveWaitsSaves(onboarding, p.injected, storage)
    /\ UNCHANGED <<core, phase, script, input, submitted, ysp_applied, proStatus,
                   paid, flows>>

\* clearFiltersAfterSearch: what it leaves of the script's variables
clearedFilters(applied, keep, fs) == IF applied /\ ~keep THEN <<>> ELSE fs
clearedShorts(applied, keep, shorts) == IF applied /\ ~keep THEN FALSE ELSE shorts

\* the 500 ms timer of showExportIfOnResults: exportBtn.show(),
\* clearFiltersAfterSearch(), onboarding.tryStart()
Timer ==
    /\ phase \in {"ready", "leaving"}
    /\ tasks.timers > 0
    /\ storage.ysp_onboarded \/ onboarding.reads + onboarding.waits < MaxCalls
    /\ tasks' = [tasks EXCEPT !.timers = @ - 1]
    /\ exportBtn' = injectExport(exportBtn, panel.injected)
    /\ filtersAppliedThisSearch' = FALSE
    /\ savedFilters' = clearedFilters(filtersAppliedThisSearch, keepAfterSearch, savedFilters)
    /\ excludeShorts' = clearedShorts(filtersAppliedThisSearch, keepAfterSearch, excludeShorts)
    /\ panel' = IF filtersAppliedThisSearch /\ ~keepAfterSearch
                THEN clearAfterSearch(panel) ELSE panel
    /\ storage' = IF filtersAppliedThisSearch /\ ~keepAfterSearch
                  THEN clearAfterSearchSaves(panel, storage) ELSE storage
    /\ onboarding' = tryStart(onboarding, storage)
    /\ UNCHANGED <<core, url, phase, keepAfterSearch, input, submitted, ysp_applied,
                   proStatus, paid, flows>>

\* the page is loaded anew, by the search that assigned location.href or by
\* the user: the script, the panel, the paygate, the export button and the
\* tour start over; storage and sessionStorage stay
PageLoad ==
    /\ phase \in {"ready", "leaving"}
    /\ phase' = "start"
    /\ \E u \in Urls : url' = IF phase = "leaving" THEN "results" ELSE u
    /\ input' = IF phase = "leaving" THEN submitted.query ELSE <<>>
    /\ submitted' = [how |-> "none", query |-> <<>>, found |-> TRUE]
    /\ savedFilters' = <<>>
    /\ excludeShorts' = FALSE
    /\ keepAfterSearch' = FALSE
    /\ filtersAppliedThisSearch' = FALSE
    /\ panel' = NewPanel
    /\ proStatus' = FALSE
    /\ tasks' = NoTasks
    /\ exportBtn' = NewExport
    /\ flows' = <<>>
    /\ onboarding' = NewOnboarding
    /\ UNCHANGED <<core, storage, ysp_applied, paid>>

\* the search handler: the panel is opened and filled, the filters saved,
\* the search box typed into and the search triggered
NextSearch ==
    \/ InitScript \/ OpenPanel \/ TypeInput \/ ToggleExcludeShorts \/ Save
    \/ TypeSearch \/ HandleSearchTrigger
SpecSearch == Init /\ [][NextSearch]_vars

(***************************************************************************)
(* C21  A search that is triggered with a saved text filter, or with       *)
(* excludeShorts on, submits stripOperators(search box) followed by        *)
(* buildQueryString(saved filters), joined by one space with an empty part *)
(* omitted: written to the search box, or put into the URL when            *)
(* excludeShorts is on.  With no saved filter and excludeShorts off the    *)
(* search box is left unchanged.                                           *)
(***************************************************************************)
\* two parts joined by one space, an empty part omitted
JoinedParts(a, b) ==
    IF a = <<>> THEN b ELSE IF b = <<>> THEN a ELSE a \o <<Space>> \o b

\* what the claim has a search submit
Appended == JoinedParts(stripOperators(input), buildQueryString(savedFilters))

\* the search submits the query the claim names, in the search box or in
\* the URL
SubmitsAppended ==
    /\ submitted'.query = Appended
    /\ IF excludeShorts THEN submitted'.how = "url" /\ input' = input
       ELSE submitted'.how = "box" /\ input' = Appended

\* the search is left to the page, the search box as it was
LeftUnchanged ==
    /\ submitted'.how = "unchanged"
    /\ submitted'.query = input
    /\ input' = input
    /\ ~filtersAppliedThisSearch'

\* C21 as it is stated: every search that is triggered with a saved filter
\* or with excludeShorts on, and whose search box is found, submits the
\* joined query
C21_SubmitsJoined ==
    [][ HandleSearchTrigger =>
            IF savedFilters = <<>> /\ ~excludeShorts THEN LeftUnchanged
            ELSE submitted'.found => submitted'.query = Appended
      ]_vars

\* C21, amended: the joined query is submitted when it is not blank; a
\* search whose joined query is blank (excludeShorts on, and nothing but
\* operators in the search box) is left to the page, the search box as it was
C21_SubmitsJoinedUnlessBlank ==
    [][ HandleSearchTrigger =>
            IF savedFilters = <<>> /\ ~excludeShorts THEN LeftUnchanged
            ELSE submitted'.found =>
                    IF IsBlank(Appended) THEN submitted'.how = "unchanged" /\ input' = input
                    ELSE SubmitsAppended
      ]_vars

\* a search with a word in the search box and a saved exact phrase wrote
\* both into the search box, joined by one space
C21_Witness ==
    /\ submitted.how = "box"
    /\ savedFilters = << [id |-> "exact", value |-> <<"a">>] >>
    /\ submitted.query = <<"a", Space, Quote, "a", Quote>>
    /\ input = submitted.query

(***************************************************************************)
(* C29  Triggering the search handler again on the search box it wrote     *)
(* submits the same query: for the search box q and the saved filters fs,  *)
(* stripOperators(q + " " + buildQueryString(fs)) is stripOperators(q).    *)
(***************************************************************************)
C29_RetriggerSame ==
    stripOperators(input \o <<Space>> \o buildQueryString(savedFilters))
        = stripOperators(input)

(***************************************************************************)
(* A session of a user who has seen the tour: filters are saved, searches  *)
(* made, pages loaded, and the callbacks delivered in any order.           *)
(***************************************************************************)
\* the content script is loaded on a page of a user who has seen the tour
InitReturning ==
    /\ op = "idle"
    /\ filters = <<>>
    /\ query = <<>>
    /\ text = <<>>
    /\ entries = <<>>
    /\ lines = <<>>
    /\ options = [given |-> FALSE, excludeShorts |-> "undefined"]
    /\ catalog = TEXT_FILTERS
    /\ UiStart([NoStorage EXCEPT !.ysp_onboarded = TRUE])

\* init on a page that has its search box: the panel is injected at once
LoadScript == InitScript /\ panel'.injected

\* the user types the word a into the Exact Phrase input
TypeWord == TypeInput /\ panel'.textInputs["exact"] = <<"a">>

\* a search is triggered on a page that has its search box
SearchTriggered == HandleSearchTrigger /\ submitted'.found

\* the page has made the search that was triggered and is on its results
SearchNavigates ==
    /\ submitted.how \in {"box", "unchanged"}
    /\ NavigateFinish
    /\ url' = "results"
    /\ panel' = panel

\* the search that assigned location.href loads the results page
SearchReloads == PageLoad /\ phase = "leaving"

\* a session of the free tier: nobody pays
NextFree ==
    \/ LoadScript \/ StorageGetReturns \/ LoadStateReturns
    \/ OpenPanel \/ TypeWord \/ ToggleExcludeShorts \/ Save
    \/ SearchTriggered \/ SearchNavigates \/ Timer \/ SearchReloads
SpecFree == InitReturning /\ [][NextFree]_vars

(***************************************************************************)
(* C22  Free tier, one-time use: when the timer of the results page fires  *)
(* after a search that applied the saved filters with keep-after-search    *)
(* off, savedFilters is empty, excludeShorts is FALSE and the persisted    *)
(* ysp_filters is empty; and a search triggered while nothing is persisted *)
(* (no new save since) is left as the user typed it.                       *)
(***************************************************************************)
KeepOff == ~keepAfterSearch /\ ~panel.keepAfterSearch /\ ~storage.ysp_keep
NothingPersisted == storage.ysp_filters = <<>> /\ ~storage.ysp_exclude_shorts
ClearedOnLoad ==
    Timer /\ filtersAppliedThisSearch /\ KeepOff
        => savedFilters' = <<>> /\ ~excludeShorts' /\ storage'.ysp_filters = <<>>
NextSearchPlain ==
    HandleSearchTrigger /\ NothingPersisted /\ KeepOff
        => submitted'.how = "unchanged" /\ submitted'.query = input
\* C22: filters are used once on the free tier
C22_OneTimeUse == [][ClearedOnLoad /\ NextSearchPlain]_vars

(***************************************************************************)
(* A session of a user who pays, turns keep-after-search on, saves filters *)
(* and searches.                                                           *)
(***************************************************************************)
NextKeep ==
    \/ LoadScript \/ StorageGetReturns \/ LoadStateReturns \/ OnPaid
    \/ OpenPanel \/ TypeWord \/ ToggleExcludeShorts \/ ToggleKeep \/ Save
    \/ SearchTriggered \/ SearchNavigates \/ Timer \/ SearchReloads
SpecKeep == InitReturning /\ [][NextKeep]_vars

(***************************************************************************)
(* The Pro status of a user who pays and whose subscription may end, over  *)
(* page loads, with the keep setting and the export format it governs.     *)
(***************************************************************************)
\* the results page is loaded anew by the user
Reload == PageLoad /\ url' = "results"

NextPro ==
    \/ LoadScript \/ StorageGetReturns \/ LoadStateReturns \/ GetUserReturns
    \/ OnPaid \/ Lapse \/ ProChanged \/ RefreshProStatus \/ RefreshReturns
    \/ OpenPanel \/ ToggleKeep \/ Save \/ Reload
SpecPro == InitReturning /\ [][NextPro]_vars

(***************************************************************************)
(* C23  While the persisted ysp_keep is TRUE, the clearing that follows a  *)
(* search (the timer of the results page) leaves savedFilters and the      *)
(* persisted ysp_filters as they were, whatever the order of the page      *)
(* load, the storage callbacks and the timer.                              *)
(***************************************************************************)
KeepsFilters ==
    Timer /\ storage.ysp_keep
        => savedFilters' = savedFilters /\ storage'.ysp_filters = storage.ysp_filters
\* C23: with keep-after-search on, a search never clears the saved filters
C23_KeepNeverClears == [][KeepsFilters]_vars

(***************************************************************************)
(* C24  Whenever the Pro status goes from paid to not paid on a page (by   *)
(* refreshProStatus, by a ysp-pro-changed message, or by the answer to the *)
(* request init made), the callbacks registered with onResetToFree are     *)
(* called: the injected panel has keepAfterSearch off and the injected     *)
(* export button has the format notic.                                     *)
(***************************************************************************)
StatusLapses == proStatus /\ ~proStatus' /\ phase' # "start"
CallbacksCalled ==
    /\ panel.injected => ~panel'.keepAfterSearch
    /\ exportBtn.injected => exportBtn'.selectedFormat = "notic"
\* C24: every lapse of the Pro status calls the onResetToFree callbacks
C24_LapseResets == [][StatusLapses => CallbacksCalled]_vars

(***************************************************************************)
(* C25  In every reachable state, when the user is not Pro, keep-after-    *)
(* search is off in the panel and in the content script's keepAfterSearch. *)
(***************************************************************************)
\* C25: keep-after-search is on only for a Pro user
C25_KeepIsProOnly == ~proStatus => ~panel.keepAfterSearch /\ ~keepAfterSearch

(***************************************************************************)
(* The export panel: its button, its format and field controls, and the    *)
(* export flows, which await the auto-scroll and the background script.    *)
(***************************************************************************)
MaxFlows == 2

Formats == {"csv", "notic"}
FieldKeys == {EXPORT_FIELDS[k].key : k \in 1..Len(EXPORT_FIELDS)}

\* ExportButton.openPanel: the format, the fields and their checkboxes are
\* reset, the Start button enabled, the panel shown
openPanel(e) ==
    [e EXCEPT !.selectedFormat = "csv", !.selectedFields = DefaultFields,
              !.checked = DefaultFields, !.startDisabled = FALSE, !.open = TRUE]

\* ExportButton.selectFormat
selectFormat(e, format) == [e EXCEPT !.selectedFormat = format, !.startDisabled = FALSE]

\* a slip of changeField: the field is deleted whatever the size of the set
changeFieldAlways(fields, key, checked) ==
    IF checked THEN fields \cup {key} ELSE fields \ {key}

\* the change listener of a field checkbox: the selected fields it leaves,
\* checked being the state the click gave the checkbox
changeField(fields, key, checked) ==
    IF checked THEN fields \cup {key}
    ELSE IF Cardinality(fields) > 1 THEN fields \ {key}
    ELSE fields

\* the change listener of a field checkbox: the checkboxes it leaves
changeChecked(fields, boxes, key, checked) ==
    IF checked THEN boxes \cup {key}
    ELSE IF Cardinality(fields) > 1 THEN boxes \ {key}
    ELSE boxes \cup {key}

\* ExportButton.resetExportUI
resetExportUI(e) == [e EXCEPT !.isExporting = FALSE, !.startDisabled = FALSE]

\* the first lines of startExport past its guards, and of exportToNotic:
\* a flow begins with a controller of its own
beginExport(e, fl) ==
    [e EXCEPT !.isExporting = TRUE, !.abortController = Len(fl) + 1,
              !.startDisabled = TRUE]
NewFlow(format) == [format |-> format, stage |-> "scroll", aborted |-> FALSE]

\* a flow has returned
Done(f) == [f EXCEPT !.stage = "done"]

\* a click on the export button while its panel is closed: toggle calls
\* openPanel, whose onOpen callback closes the filter panel
OpenExport ==
    /\ phase = "ready"
    /\ exportBtn.injected
    /\ ~exportBtn.open
    /\ panel' = [panel EXCEPT !.open = FALSE]
    /\ exportBtn' = openPanel(exportBtn)
    /\ UNCHANGED <<core, url, phase, script, input, submitted, storage, ysp_applied,
                   proStatus, paid, tasks, flows, onboarding>>

\* ExportButton.close, by a click on the export button while its panel is
\* open or by a click outside the panel
CloseExport ==
    /\ phase = "ready"
    /\ exportBtn.open
    /\ exportBtn' = closeExport(exportBtn)
    /\ flows' = abortedBy(exportBtn, flows)
    /\ UNCHANGED <<core, url, phase, script, input, submitted, panel, storage,
                   ysp_applied, proStatus, paid, tasks, onboarding>>

\* a click on Cancel / Stop: a running export is aborted, else the panel
\* is closed
CancelExport ==
    /\ phase = "ready"
    /\ exportBtn.open
    /\ exportBtn' = IF exportBtn.isExporting THEN exportBtn ELSE closeExport(exportBtn)
    /\ flows' = abortedBy(exportBtn, flows)
    /\ UNCHANGED <<core, url, phase, script, input, submitted, panel, storage,
                   ysp_applied, proStatus, paid, tasks, onboarding>>

\* a click on a format button
SelectFormat ==
    /\ phase = "ready"
    /\ exportBtn.open
    /\ \E format \in Formats : exportBtn' = selectFormat(exportBtn, format)
    /\ UNCHANGED <<core, url, phase, script, input, submitted, panel, storage,
                   ysp_applied, proStatus, paid, tasks, flows, onboarding>>

\* a click on a field checkbox: the click flips it, then the listener runs
ToggleField ==
    /\ phase = "ready"
    /\ exportBtn.open
    /\ \E key \in FieldKeys :
        LET checked == key \notin exportBtn.checked
        IN  exportBtn' =
                [exportBtn EXCEPT
                    !.selectedFields = changeField(@, key, checked),
                    !.checked = changeChecked(exportBtn.selectedFields, @, key, checked)]
    /\ UNCHANGED <<core, url, phase, script, input, submitted, panel, storage,
                   ysp_applied, proStatus, paid, tasks, flows, onboarding>>

\* startExport, by a click on the Start button while it is enabled: nothing
\* while isExporting; a Notic export begins; a CSV export begins for a Pro
\* user and closes the panel for any other
StartExport ==
    /\ phase = "ready"
    /\ exportBtn.open
    /\ ~exportBtn.startDisabled
    /\ Len(flows) < MaxFlows
    /\ IF exportBtn.isExporting
       THEN UNCHANGED <<exportBtn, flows>>
       ELSE IF exportBtn.selectedFormat = "csv" /\ ~proStatus
       THEN /\ exportBtn' = closeExport(exportBtn)
            /\ flows' = abortedBy(exportBtn, flows)
       ELSE /\ exportBtn' = beginExport(exportBtn, flows)
            /\ flows' = Append(flows, NewFlow(exportBtn.selectedFormat))
    /\ UNCHANGED <<core, url, phase, script, input, submitted, panel, storage,
                   ysp_applied, proStatus, paid, tasks, onboarding>>

\* a flow resumes after autoScroll: aborted, it resets the panel; without
\* results it shows so and resets the panel 2 s later; a CSV export
\* downloads and closes the panel 1.5 s later; a Notic export sends its
\* message to the background script.  A flow that returns goes through
\* its finally block
FlowScrollReturns ==
    /\ \E i \in 1..Len(flows), results \in BOOLEAN :
        /\ flows[i].stage = "scroll"
        /\ IF flows[i].aborted
           THEN /\ exportBtn' = resetExportUI(exportBtn)
                /\ flows' = [flows EXCEPT ![i] = Done(@)]
                /\ tasks' = tasks
           ELSE IF ~results
           THEN /\ exportBtn' = [exportBtn EXCEPT !.isExporting = FALSE]
                /\ flows' = [flows EXCEPT ![i] = Done(@)]
                /\ tasks' = [tasks EXCEPT !.resetTimers = @ + 1]
           ELSE IF flows[i].format = "csv"
           THEN /\ exportBtn' = [exportBtn EXCEPT !.isExporting = FALSE]
                /\ flows' = [flows EXCEPT ![i] = Done(@)]
                /\ tasks' = [tasks EXCEPT !.closeTimers = @ + 1]
           ELSE /\ exportBtn' = exportBtn
                /\ flows' = [flows EXCEPT ![i].stage = "send"]
                /\ tasks' = tasks
    /\ UNCHANGED <<core, url, phase, script, input, submitted, panel, storage,
                   ysp_applied, proStatus, paid, onboarding>>

\* exportToNotic resumes after chrome.runtime.sendMessage: answered ok, it
\* closes the panel 1.5 s later; answered otherwise, it resets the panel 2 s
\* later; rejected, it resets the panel 3 s later unless it was aborted
FlowSendReturns ==
    /\ \E i \in 1..Len(flows), response \in {"ok", "failed", "rejected"} :
        /\ flows[i].stage = "send"
        /\ tasks' =
            IF response = "ok" THEN [tasks EXCEPT !.closeTimers = @ + 1]
            ELSE IF response = "failed" \/ ~flows[i].aborted
            THEN [tasks EXCEPT !.resetTimers = @ + 1]
            ELSE tasks
        /\ flows' = [flows EXCEPT ![i] = Done(@)]
    /\ exportBtn' = [exportBtn EXCEPT !.isExporting = FALSE]
    /\ UNCHANGED <<core, url, phase, script, input, submitted, panel, storage,
                   ysp_applied, proStatus, paid, onboarding>>

\* setTimeout(() => this.close(), 1500) fires
CloseTimer ==
    /\ tasks.closeTimers > 0
    /\ tasks' = [tasks EXCEPT !.closeTimers = @ - 1]
    /\ exportBtn' = closeExport(exportBtn)
    /\ flows' = abortedBy(exportBtn, flows)
    /\ UNCHANGED <<core, url, phase, script, input, submitted, panel, storage,
                   ysp_applied, proStatus, paid, onboarding>>

\* setTimeout(() => this.resetExportUI(), ...) fires
ResetTimer ==
    /\ tasks.resetTimers > 0
    /\ tasks' = [tasks EXCEPT !.resetTimers = @ - 1]
    /\ exportBtn' = resetExportUI(exportBtn)
    /\ UNCHANGED <<core, url, phase, script, input, submitted, panel, storage,
                   ysp_applied, proStatus, paid, flows, onboarding>>

\* the two buttons and their panels
NextPanels ==
    \/ LoadScript \/ OpenPanel \/ ClosePanel \/ OpenExport \/ CloseExport
    \/ CancelExport \/ ToggleField
SpecPanels == InitReturning /\ [][NextPanels]_vars

\* the exports of a user who may pay
NextExport ==
    \/ LoadScript \/ OnPaid \/ OpenExport \/ CloseExport \/ CancelExport
    \/ SelectFormat \/ StartExport \/ FlowScrollReturns \/ FlowSendReturns
    \/ CloseTimer \/ ResetTimer
SpecExport == InitReturning /\ [][NextExport]_vars

(***************************************************************************)
(* C26  The filter panel and the export panel are never open at the same   *)
(* time, after any clicks on the two buttons and outside the panels; the   *)
(* step that opens one leaves the other closed.                            *)
(***************************************************************************)
NeverBothOpen == ~(panel.open /\ exportBtn.open)
OpeningClosesOther ==
    /\ ~panel.open /\ panel'.open => ~exportBtn'.open
    /\ ~exportBtn.open /\ exportBtn'.open => ~panel'.open
\* C26: the two panels exclude each other
C26_MutuallyExclusive == []NeverBothOpen /\ [][OpeningClosesOther]_vars
\* the export panel is open, over a filter panel that has been injected
C26_Witness == exportBtn.open /\ ~panel.open /\ panel.injected

(***************************************************************************)
(* C27  The set of selected export fields is never empty, after any        *)
(* opening of the export panel and any clicks on the field checkboxes; a   *)
(* click that would uncheck the last selected field leaves the set as it   *)
(* is.                                                                     *)
(***************************************************************************)
SomeFieldSelected == exportBtn.selectedFields # {}
LastFieldStays ==
    ToggleField /\ Cardinality(exportBtn.selectedFields) = 1
        => exportBtn.selectedFields \subseteq exportBtn'.selectedFields
\* C27: at least one export field stays selected
C27_FieldsNeverEmpty == []SomeFieldSelected /\ [][LastFieldStays]_vars
\* one field is left selected in the open export panel
C27_Witness == exportBtn.open /\ Cardinality(exportBtn.selectedFields) = 1

(***************************************************************************)
(* C30  At most one export flow runs at a time: no two flows are between   *)
(* their start and their return at once, and isExporting is TRUE while a   *)
(* flow that has not been aborted is running, whatever the order of        *)
(* Start, Stop, close, reopen and the steps of the flows.                  *)
(***************************************************************************)
Running == {i \in 1..Len(flows) : flows[i].stage # "done"}
\* C30: one export flow at a time, and isExporting tells of it
C30_OneFlowAtATime ==
    /\ Cardinality(Running) <= 1
    /\ \A i \in Running : ~flows[i].aborted => exportBtn.isExporting

(***************************************************************************)
(* The onboarding tour of a new installation: every 500 ms timer of a      *)
(* results page calls tryStart, which reads ysp_onboarded, waits for the   *)
(* filter button and starts the tour.                                      *)
(***************************************************************************)
\* Onboarding.finish, by the last step of the tour or by Skip
finish(o) == [o EXCEPT !.isActive = FALSE]

\* a call of tryStart is answered that ysp_onboarded is not set: it starts
\* the tour when the filter button is there, else it waits for it
TourRead ==
    /\ onboarding.reads > 0
    /\ onboarding' =
        IF panel.injected THEN start([onboarding EXCEPT !.reads = @ - 1])
        ELSE [onboarding EXCEPT !.reads = @ - 1, !.waits = @ + 1]
    /\ storage' = IF panel.injected THEN startSaves(onboarding, storage) ELSE storage
    /\ UNCHANGED <<core, url, phase, script, input, submitted, panel, ysp_applied,
                   proStatus, paid, tasks, exportBtn, flows>>

\* the 8 s of waitForElement are over for a call that waits: it resolves
\* with null and tryStart calls start
TourTimeout ==
    /\ onboarding.waits > 0
    /\ onboarding' = start([onboarding EXCEPT !.waits = @ - 1])
    /\ storage' = startSaves(onboarding, storage)
    /\ UNCHANGED <<core, url, phase, script, input, submitted, panel, ysp_applied,
                   proStatus, paid, tasks, exportBtn, flows>>

\* the user ends the tour that is shown
TourFinish ==
    /\ onboarding.isActive
    /\ onboarding' = finish(onboarding)
    /\ storage' = [storage EXCEPT !.ysp_onboarded = TRUE]
    /\ UNCHANGED <<core, url, phase, script, input, submitted, panel, ysp_applied,
                   proStatus, paid, tasks, exportBtn, flows>>

NextTour ==
    \/ InitScript \/ Mutation \/ NavigateFinish \/ Timer
    \/ TourRead \/ TourTimeout \/ TourFinish \/ PageLoad
SpecTour == Init /\ [][NextTour]_vars

(***************************************************************************)
(* C28  The tour never re-triggers: once ysp_onboarded is set, no call of  *)
(* tryStart, pending or later, shows the tour again, whatever the order of *)
(* the calls made on page load and on navigations, of their waits for the  *)
(* filter button, and of the end of the first tour.                        *)
(***************************************************************************)
TourStarts == ~onboarding.isActive /\ onboarding'.isActive
\* C28: no tour starts once ysp_onboarded is set
C28_NeverRetriggers == [][storage.ysp_onboarded => ~TourStarts]_vars

====
